---- MODULE Spec2Model ----
(***************************************************************************)
(* State-machine model of the JIRA extension pack (sdm-pack-jira): the     *)
(* cached detail fetcher getJiraDetails, the TTL cache behind it, the      *)
(* channel-preference command setJiraChannelPrefs with its cached reads,   *)
(* and the event router routeEvent.                                        *)
(*                                                                         *)
(* The specifications of the module share all variables:                   *)
(*   Spec          getJiraDetails callers, cache operations, the clock     *)
(*   SpecPrefs     setJiraChannelPrefs racing cached preference reads      *)
(*   SpecRoute     one routeEvent pass over an arbitrary event             *)
(*   SpecRedeliver a route and the redelivery of its event                 *)
(*   SpecPrefsFill queryJiraChannelPrefs over stored records               *)
(*   SpecHashKey   buildJiraHashKey on pairs of payloads                   *)
(*   SpecMapping   submitMappingPayload and cached mapping lookups         *)
(*   SpecApproval  the approval handler of OnJiraIssueEventApproval        *)
(*   SpecRace      two concurrent routes for one issue                     *)
(*   SpecHandler   the OnJiraIssueEvent handler around routeEvent          *)
(*   SpecPutDelete a put and then a delete of one mapping payload          *)
(*   SpecMsgId     getJiraIssueDescription on pairs of events              *)
(***************************************************************************)
EXTENDS Integers, Sequences, FiniteSets, TLC

(***************************************************************************)
(* Bounds of the model.                                                    *)
(***************************************************************************)
\* The clock runs 0..MaxTime (seconds, abstracted).
MaxTime == 3
\* Callers pass a ttl in 1..MaxTtl (the code passes 5, 30 and 3600).
MaxTtl == 2

(***************************************************************************)
(* Values.                                                                 *)
(***************************************************************************)
\* JavaScript's undefined, as a cache miss and as "no value returned".
Undefined == "undefined"
\* Response bodies upstream may return for a resource.
Bodies == {"b1", "b2"}
\* Resource URLs given to getJiraDetails (they are the cache keys).
Urls == {"u1", "u2"}
\* Callers of getJiraDetails under Spec (an async function in flight); other
\* activity on the cache is covered by the direct cache operations.
Callers == {"p1"}
Ttls == 1..MaxTtl

VARIABLES
    now,          \* the clock
    useCacheCfg,  \* configuration value sdm.jira.useCache
    jiraCache,    \* sdm.jiraCache: key -> entry
    lastSet,      \* history: per key, the most recent set not since deleted
                  \* (its value and the time its ttl runs out)
    call,         \* per caller: the getJiraDetails invocation in flight
    prefStore,    \* the JIRAPreferences scope of the preference store
    writer,       \* the setJiraChannelPrefs invocation
    reader,       \* the cached preference read (queryJiraChannelPrefs)
    lastDone,     \* history: per channel, the record of the latest
                  \* setJiraChannelPrefs that returned success
    event,        \* the inbound JiraIssue event being routed
    newEvent,     \* routeEvent's newEvent argument
    resolved,     \* the channels resolved for the event (mappings, dynamic)
    storedPrefs,  \* per channel, the preference record the lookup holds
    route,        \* the routeEvent invocation
    prefQuery,    \* a queryJiraChannelPrefs invocation on its own
    hashCall,     \* buildJiraHashKey applied to two payloads
    mappingStore, \* the JIRAMappings scope of the preference store
    submit,       \* the submitMappingPayload invocation
    approval,     \* the onJiraIssueEventApprovalHandler invocation
    race,         \* two routes fetching for the same issue concurrently
    storeBefore,  \* history: the JIRAMappings scope before a pair of calls
    descCall      \* getJiraIssueDescription's msgOptions for two events

fetchVars == <<now, useCacheCfg, jiraCache, lastSet, call>>
prefVars == <<prefStore, writer, reader, lastDone>>
routeVars == <<event, newEvent, resolved, storedPrefs, route>>
cmdVars == <<prefQuery, hashCall, mappingStore, submit>>
handlerVars == <<approval, race, storeBefore, descCall>>
\* What the preference command and the router leave alone besides the cache.
restVars == <<cmdVars, handlerVars>>
vars == <<fetchVars, prefVars, routeVars, cmdVars, handlerVars>>
\* What the fetcher and the bare cache operations leave alone.
notFetch == <<prefVars, routeVars, cmdVars, handlerVars>>

(***************************************************************************)
(* The cache (JiraCache / JiraNodeCache): get, set, delete, flushAll over  *)
(* entries that carry an expiry.                                           *)
(***************************************************************************)
NoEntry == [present |-> FALSE, value |-> Undefined, expiry |-> 0]
NoSet == [set |-> FALSE, value |-> Undefined, until |-> 0]

\* An entry is live while the clock has not reached its expiry.
Live(e, t) == e.present /\ t < e.expiry

\* get(key): the value of a live entry, undefined otherwise; never throws.
CacheGetIgnoringExpiry(c, k, t) == IF c[k].present THEN c[k].value ELSE Undefined
CacheGet(c, k, t) == IF Live(c[k], t) THEN c[k].value ELSE Undefined

\* set(key, value, ttl): overwrite the entry and restart its expiry.
CacheSet(c, k, v, ttl, t) ==
    [c EXCEPT ![k] = [present |-> TRUE, value |-> v, expiry |-> t + ttl]]

\* delete(key)
CacheDel(c, k) == [c EXCEPT ![k] = NoEntry]

\* flushAll()
CacheFlush(c) == [k \in DOMAIN c |-> NoEntry]

\* The periodic expiry sweep (checkperiod): expired entries are dropped.
CacheSweep(c, t) == [k \in DOMAIN c |-> IF Live(c[k], t) THEN c[k] ELSE NoEntry]

RecordSet(h, k, v, ttl, t) ==
    [h EXCEPT ![k] = [set |-> TRUE, value |-> v, until |-> t + ttl]]

(***************************************************************************)
(* getJiraDetails(jiraSelfUrl, cache = false, ttl = 3600, ctx)             *)
(***************************************************************************)
\* const useCache = configurationValue("sdm.jira.useCache", false) && cache
UseCacheIgnoringConfig(cfg, cacheArg) == cacheArg
UseCache(cfg, cacheArg) == cfg /\ cacheArg

\* if (useCache && cacheResult !== undefined): the cached value is returned.
CacheHit(cfg, cacheArg, c, url, t) ==
    UseCache(cfg, cacheArg) /\ CacheGet(c, url, t) # Undefined

\* After a successful exchange: if (cache) jiraCache.set(url, result.body, ttl)
StoreOnSuccessDefaultTtl(cfg, cacheArg, c, url, body, ttl, t) ==
    IF cacheArg THEN CacheSet(c, url, body, MaxTtl + 1, t) ELSE c
StoreOnSuccessIfAbsent(cfg, cacheArg, c, url, body, ttl, t) ==
    IF cacheArg /\ ~c[url].present THEN CacheSet(c, url, body, ttl, t) ELSE c
StoreOnSuccessWhenUseCache(cfg, cacheArg, c, url, body, ttl, t) ==
    IF UseCache(cfg, cacheArg) THEN CacheSet(c, url, body, ttl, t) ELSE c
StoreOnSuccess(cfg, cacheArg, c, url, body, ttl, t) ==
    IF cacheArg THEN CacheSet(c, url, body, ttl, t) ELSE c

\* In the catch block: log and rethrow; the cache is not touched.
StoreOnFailureEvicts(c, url) == CacheDel(c, url)
StoreOnFailure(c, url) == c

IdleCall == [pc |-> "idle", url |-> "u1", cache |-> FALSE, ttl |-> 1,
             seen |-> Undefined, http |-> 0, resp |-> "none",
             result |-> Undefined]

\* The call up to its first await: read the cache, then either return the
\* cached value or issue the GET (getJiraAuth, the default authenticator,
\* only encodes the configured credentials and does not fail).
GetJiraDetailsCall(p, url, cacheArg, ttl) ==
    /\ call[p].pc # "waiting"
    /\ LET seen == CacheGet(jiraCache, url, now) IN
       call' = [call EXCEPT ![p] =
                  IF CacheHit(useCacheCfg, cacheArg, jiraCache, url, now)
                  THEN [pc |-> "returned", url |-> url, cache |-> cacheArg,
                        ttl |-> ttl, seen |-> seen, http |-> 0,
                        resp |-> "none", result |-> seen]
                  ELSE [pc |-> "waiting", url |-> url, cache |-> cacheArg,
                        ttl |-> ttl, seen |-> seen, http |-> 1,
                        resp |-> "none", result |-> Undefined]]
    /\ UNCHANGED <<now, useCacheCfg, jiraCache, lastSet, notFetch>>

\* httpClient.exchange resolved with body: populate the cache, return body.
GetJiraDetailsOk(p, body) ==
    /\ call[p].pc = "waiting"
    /\ LET c == call[p]
           stored == StoreOnSuccess(useCacheCfg, c.cache, jiraCache, c.url,
                                    body, c.ttl, now)
       IN /\ jiraCache' = stored
          /\ lastSet' = IF stored # jiraCache
                        THEN RecordSet(lastSet, c.url, stored[c.url].value,
                                       stored[c.url].expiry - now, now)
                        ELSE lastSet
    /\ call' = [call EXCEPT ![p].pc = "returned", ![p].resp = "ok",
                             ![p].result = body]
    /\ UNCHANGED <<now, useCacheCfg, notFetch>>

\* httpClient.exchange rejected: the catch block throws new Error(e).
GetJiraDetailsFail(p) ==
    /\ call[p].pc = "waiting"
    /\ jiraCache' = StoreOnFailure(jiraCache, call[p].url)
    /\ lastSet' = IF jiraCache' # jiraCache
                  THEN [lastSet EXCEPT ![call[p].url] = NoSet] ELSE lastSet
    /\ call' = [call EXCEPT ![p].pc = "thrown", ![p].resp = "failed"]
    /\ UNCHANGED <<now, useCacheCfg, notFetch>>

(***************************************************************************)
(* Direct use of the cache through its four operations, and the clock.     *)
(***************************************************************************)
CacheOpSet(k, v, ttl) ==
    /\ jiraCache' = CacheSet(jiraCache, k, v, ttl, now)
    /\ lastSet' = RecordSet(lastSet, k, v, ttl, now)
    /\ UNCHANGED <<now, useCacheCfg, call, notFetch>>

CacheOpDel(k) ==
    /\ jiraCache[k].present
    /\ jiraCache' = CacheDel(jiraCache, k)
    /\ lastSet' = [lastSet EXCEPT ![k] = NoSet]
    /\ UNCHANGED <<now, useCacheCfg, call, notFetch>>

CacheOpFlush ==
    /\ \E k \in DOMAIN jiraCache : jiraCache[k].present
    /\ jiraCache' = CacheFlush(jiraCache)
    /\ lastSet' = [k \in DOMAIN lastSet |-> NoSet]
    /\ UNCHANGED <<now, useCacheCfg, call, notFetch>>

CacheOpSweep ==
    /\ jiraCache' = CacheSweep(jiraCache, now)
    /\ jiraCache' # jiraCache
    /\ UNCHANGED <<now, useCacheCfg, lastSet, call, notFetch>>

Tick ==
    /\ now < MaxTime
    /\ now' = now + 1
    /\ UNCHANGED <<useCacheCfg, jiraCache, lastSet, call, notFetch>>

(***************************************************************************)
(* Spec: getJiraDetails callers, the cache operations and the clock.       *)
(***************************************************************************)
\* The parts of the state a specification does not exercise.
PrefsIdle ==
    /\ prefStore = <<>>
    /\ writer = <<>>
    /\ reader = <<>>
    /\ lastDone = <<>>

RouteIdle ==
    /\ event = <<>>
    /\ newEvent = FALSE
    /\ resolved = <<>>
    /\ storedPrefs = <<>>
    /\ route = <<>>

HandlersIdle ==
    /\ approval = <<>>
    /\ race = <<>>
    /\ storeBefore = <<>>
    /\ descCall = <<>>

CmdIdle ==
    /\ prefQuery = <<>>
    /\ hashCall = <<>>
    /\ mappingStore = <<>>
    /\ submit = <<>>

Init ==
    /\ now = 0
    /\ useCacheCfg \in BOOLEAN
    /\ jiraCache = [k \in Urls |-> NoEntry]
    /\ lastSet = [k \in Urls |-> NoSet]
    /\ call = [p \in Callers |-> IdleCall]
    /\ PrefsIdle
    /\ HandlersIdle
    /\ RouteIdle
    /\ CmdIdle

Next ==
    \/ \E p \in Callers, u \in Urls, c \in BOOLEAN, t \in Ttls :
          GetJiraDetailsCall(p, u, c, t)
    \/ \E p \in Callers, b \in Bodies : GetJiraDetailsOk(p, b)
    \/ \E p \in Callers : GetJiraDetailsFail(p)
    \/ \E k \in Urls, v \in Bodies, t \in Ttls : CacheOpSet(k, v, t)
    \/ \E k \in Urls : CacheOpDel(k)
    \/ CacheOpFlush
    \/ CacheOpSweep
    \/ Tick

Spec == Init /\ [][Next]_vars

(***************************************************************************)
(* Properties of getJiraDetails and of the cache.                          *)
(***************************************************************************)
\* The condition under which the claim says the call is served from cache.
ServedFromCache(c) == useCacheCfg /\ c.cache /\ c.seen # Undefined

\* C1: getJiraDetails returns the cached value without an upstream request
\* if and only if sdm.jira.useCache is true, the cache argument is true and
\* the cache held an entry for the url when it was called; in every other
\* case it issues an upstream GET.
C1_HitIffEnabledAndPresent ==
    \A p \in DOMAIN call :
        LET c == call[p] IN
        c.pc # "idle" =>
            /\ (c.pc = "returned" /\ c.http = 0) <=> ServedFromCache(c)
            /\ ServedFromCache(c) => c.result = c.seen
            /\ ~ServedFromCache(c) => c.http = 1

\* A call was answered from the cache with no upstream request.
C1_Witness ==
    \E p \in DOMAIN call :
        /\ call[p].pc = "returned" /\ call[p].http = 0
        /\ call[p].result \in Bodies

\* C2: on a cache miss (a cache-enabled call that found no entry) the cache
\* is written only in the step that resumes from a successful fetch; the
\* entry written holds exactly the returned body and expires ttl after the
\* write; neither issuing the request nor a failed fetch changes the cache.
C2_WriteOnlyOnSuccess ==
    [][\A p \in DOMAIN call :
          LET c == call[p] d == call'[p] IN
          /\ (c.pc # "waiting" /\ d # c) => jiraCache' = jiraCache
          /\ (c.pc = "waiting" /\ d.resp = "failed") => jiraCache' = jiraCache
          /\ (c.pc = "waiting" /\ d.resp = "ok" /\ useCacheCfg /\ c.cache) =>
                /\ d.result \in Bodies
                /\ jiraCache' = [jiraCache EXCEPT ![c.url] =
                        [present |-> TRUE, value |-> d.result,
                         expiry |-> now + c.ttl]]
      ]_fetchVars

\* A cache-enabled call missed, fetched, and its body is now cached.
C2_Witness ==
    \E p \in DOMAIN call :
        LET c == call[p] IN
        /\ c.pc = "returned" /\ c.resp = "ok" /\ useCacheCfg /\ c.cache
        /\ c.seen = Undefined
        /\ CacheGet(jiraCache, c.url, now) = c.result

\* C3: when the upstream request fails the call has issued exactly one
\* request, ends by throwing (no value is returned), and the failing step
\* leaves the cache as it was.
C3_FailureThrowsOnce ==
    /\ [](\A p \in DOMAIN call :
            call[p].resp = "failed" =>
                /\ call[p].pc = "thrown"
                /\ call[p].http = 1
                /\ call[p].result = Undefined)
    /\ [][\A p \in DOMAIN call :
            (call[p].pc = "waiting" /\ call'[p].resp = "failed") =>
                jiraCache' = jiraCache]_fetchVars

\* A call has thrown while the cache holds an entry for its url.
C3_Witness ==
    \E p \in DOMAIN call, k \in DOMAIN jiraCache :
        /\ call[p].pc = "thrown" /\ call[p].resp = "failed"
        /\ call[p].url = k /\ jiraCache[k].present

\* C4: for every key, a get returns the value of the most recent set exactly
\* while that set's ttl has not elapsed (so it returns it immediately after
\* the set), and returns undefined once the ttl has elapsed or after a
\* delete or flushAll; a later set replaces the value and restarts the expiry.
C4_CacheRoundTrip ==
    \A k \in DOMAIN jiraCache :
        LET g == lastSet[k]
            r == CacheGet(jiraCache, k, now)
        IN /\ (g.set /\ now < g.until) => r = g.value
           /\ (g.set /\ now >= g.until) => r = Undefined
           /\ ~g.set => r = Undefined

\* A key was set, its ttl has elapsed, and get yields undefined for it.
C4_Witness ==
    \E k \in DOMAIN jiraCache :
        /\ lastSet[k].set /\ jiraCache[k].present
        /\ now >= lastSet[k].until
        /\ CacheGet(jiraCache, k, now) = Undefined

(***************************************************************************)
(* Channel preferences: setJiraChannelPrefs and the cached read behind     *)
(* queryJiraChannelPrefs (cachedJiraPreferenceLookup: cache get, on a miss *)
(* a store read, then a cache set).                                        *)
(***************************************************************************)
Workspace == "ws"
PrefChannels == {"c1", "c2"}
\* Distinct preference payloads, in the order they get stored.
PrefRecords == <<"r0", "r1", "r2">>
Rank(r) == CHOOSE i \in 1..Len(PrefRecords) : PrefRecords[i] = r

\* const key = `${workspaceId}-preferences-${slackChannelName}`
PrefKey(ws, ch) == <<ws, "preferences", ch>>
PrefKeys == {PrefKey(Workspace, ch) : ch \in PrefChannels}

\* The ttl of a cached preference record: the cache's default, the longest
\* ttl of the model.
PrefTtl == MaxTtl

IdleWriter == [pc |-> "idle", channel |-> "c1", payload |-> PrefRecords[1]]
IdleReader == [pc |-> "idle", channel |-> "c1", fetched |-> Undefined,
               result |-> Undefined, begunAfter |-> PrefRecords[1]]

\* Where setJiraChannelPrefs stands once its put has resolved: at the
\* purge of line 257.
StepAfterPutSkipsPurge == "replying"
StepAfterPut == "purging"

\* await ci.preferences.put(key, payload, {scope: "JIRAPreferences"}) took
\* effect at the store and resolved; payload is the next new record.
SetPrefsPut(ch) ==
    /\ writer.pc \in {"idle", "done", "failed"}
    /\ Rank(prefStore[ch]) < Len(PrefRecords)
    /\ LET payload == PrefRecords[Rank(prefStore[ch]) + 1] IN
       /\ prefStore' = [prefStore EXCEPT ![ch] = payload]
       /\ writer' = [pc |-> StepAfterPut, channel |-> ch,
                     payload |-> payload]
    /\ UNCHANGED <<restVars, fetchVars, routeVars, reader, lastDone>>

\* The put rejected: the handler rejects with it, nothing else is done.
SetPrefsPutFail(ch) ==
    /\ writer.pc \in {"idle", "done", "failed"}
    /\ writer' = [pc |-> "failed", channel |-> ch,
                  payload |-> writer.payload]
    /\ UNCHANGED <<restVars, fetchVars, routeVars, prefStore, reader,
                   lastDone>>

\* await purgeCacheEntry(key)
PurgeCacheEntry(c, k) == CacheDel(c, k)

SetPrefsPurge ==
    /\ writer.pc = "purging"
    /\ LET k == PrefKey(Workspace, writer.channel) IN
       /\ jiraCache' = PurgeCacheEntry(jiraCache, k)
       /\ lastSet' = IF jiraCache' # jiraCache
                     THEN [lastSet EXCEPT ![k] = NoSet] ELSE lastSet
    /\ writer' = [writer EXCEPT !.pc = "replying"]
    /\ UNCHANGED <<restVars, now, useCacheCfg, call, routeVars, prefStore,
                   reader, lastDone>>

\* The purge rejected: the handler rejects with it, no message is sent.
SetPrefsPurgeFail ==
    /\ writer.pc = "purging"
    /\ writer' = [writer EXCEPT !.pc = "failed"]
    /\ UNCHANGED <<restVars, fetchVars, routeVars, prefStore, reader,
                   lastDone>>

\* await ci.addressChannels(slackSuccessMessage(...)); return { code: 0 }
SetPrefsReply ==
    /\ writer.pc = "replying"
    /\ writer' = [writer EXCEPT !.pc = "done"]
    /\ lastDone' = [lastDone EXCEPT ![writer.channel] = writer.payload]
    /\ UNCHANGED <<restVars, fetchVars, routeVars, prefStore, reader>>

\* The cached read up to its first await: a hit returns the cached record,
\* a miss sends the read to the store.
PrefReadStart(ch) ==
    /\ reader.pc \in {"idle", "done"}
    /\ LET v == CacheGet(jiraCache, PrefKey(Workspace, ch), now) IN
       reader' = [pc |-> IF v # Undefined THEN "done" ELSE "reading",
                  channel |-> ch, fetched |-> Undefined, result |-> v,
                  begunAfter |-> lastDone[ch]]
    /\ UNCHANGED <<restVars, fetchVars, routeVars, prefStore, writer,
                   lastDone>>

\* The store answers the read with the record it holds at that moment.
PrefReadStore ==
    /\ reader.pc = "reading"
    /\ reader' = [reader EXCEPT !.pc = "fetched",
                                !.fetched = prefStore[reader.channel]]
    /\ UNCHANGED <<restVars, fetchVars, routeVars, prefStore, writer,
                   lastDone>>

\* The read resumes with the fetched record, caches and returns it.
PrefReadFill ==
    /\ reader.pc = "fetched"
    /\ LET k == PrefKey(Workspace, reader.channel) IN
       /\ jiraCache' = CacheSet(jiraCache, k, reader.fetched, PrefTtl, now)
       /\ lastSet' = RecordSet(lastSet, k, reader.fetched, PrefTtl, now)
    /\ reader' = [reader EXCEPT !.pc = "done", !.result = reader.fetched]
    /\ UNCHANGED <<restVars, now, useCacheCfg, call, routeVars, prefStore,
                   writer, lastDone>>

InitPrefs ==
    /\ now = 0
    /\ useCacheCfg = TRUE
    /\ jiraCache = [k \in PrefKeys |-> NoEntry]
    /\ lastSet = [k \in PrefKeys |-> NoSet]
    /\ call = [p \in Callers |-> IdleCall]
    /\ prefStore = [ch \in PrefChannels |-> PrefRecords[1]]
    /\ writer = IdleWriter
    /\ reader = IdleReader
    /\ lastDone = [ch \in PrefChannels |-> PrefRecords[1]]
    /\ RouteIdle
    /\ HandlersIdle
    /\ CmdIdle

NextPrefs ==
    \/ \E ch \in PrefChannels : SetPrefsPut(ch)
    \/ \E ch \in PrefChannels : SetPrefsPutFail(ch)
    \/ SetPrefsPurge
    \/ SetPrefsPurgeFail
    \/ SetPrefsReply
    \/ \E ch \in PrefChannels : PrefReadStart(ch)
    \/ PrefReadStore
    \/ PrefReadFill
    \/ CacheOpSweep
    \/ Tick

SpecPrefs == InitPrefs /\ [][NextPrefs]_vars

\* C5: once setJiraChannelPrefs has returned success for a channel, the
\* cache holds no record older than the one it stored, and no read begun
\* after that return yields an older record.
C5_NoStaleAfterSuccess ==
    /\ \A ch \in PrefChannels :
          LET v == CacheGet(jiraCache, PrefKey(Workspace, ch), now) IN
          v # Undefined => Rank(v) >= Rank(lastDone[ch])
    /\ (reader.pc = "done" /\ reader.result # Undefined) =>
          Rank(reader.result) >= Rank(reader.begunAfter)

\* The race of C5 has happened: a success was reported and the cache still
\* serves the record stored before it.
C5_StaleServed ==
    /\ writer.pc = "done"
    /\ CacheGet(jiraCache, PrefKey(Workspace, writer.channel), now)
          = PrefRecords[1]

(***************************************************************************)
(* Preference records: mungeJiraPrefs and the defaults of                  *)
(* queryJiraChannelPrefs.                                                  *)
(***************************************************************************)
Categories ==
    {"issueComment", "issueDeleted", "issueCreated", "issueState",
     "issueStatus"}
TypeFlags == {"bug", "task", "epic", "story", "subtask"}
PrefFields == Categories \cup TypeFlags
Channels == {"c1", "c2"}

\* const a = (b: undefined | boolean) => b !== undefined ? b : true
\* A stored field is "true", "false" or "absent".
DefaultFalseWhenAbsent(b) == b = "true"
DefaultTrueWhenAbsent(b) == IF b # "absent" THEN b = "true" ELSE TRUE

\* mungeJiraPrefs(prefs): every field through a(), the channel kept.
MungeJiraPrefs(prefs) ==
    [f \in PrefFields \cup {"channel"} |->
        IF f = "channel" THEN prefs.channel
        ELSE DefaultTrueWhenAbsent(prefs[f])]

\* The record queryJiraChannelPrefs builds when the lookup found nothing.
DefaultPrefsAllTrue(channel) ==
    [f \in PrefFields \cup {"channel"} |->
        IF f = "channel" THEN channel ELSE TRUE]
DefaultPrefs(channel) ==
    [f \in PrefFields \cup {"channel"} |->
        IF f = "channel" THEN channel
        ELSE f \notin {"issueState", "issueStatus"}]

\* Stored records the model draws from; "none" is no stored record.
StoredAllAbsent(channel) ==
    [f \in PrefFields \cup {"channel"} |->
        IF f = "channel" THEN channel ELSE "absent"]
StoredAllFalse(channel) ==
    [f \in PrefFields \cup {"channel"} |->
        IF f = "channel" THEN channel ELSE "false"]
StoredNoBug(channel) ==
    [f \in PrefFields \cup {"channel"} |->
        IF f = "channel" THEN channel
        ELSE IF f = "bug" THEN "false" ELSE "true"]
PrefSamples == {"none", "allAbsent", "allFalse", "noBug"}
StoredRecord(sample, channel) ==
    CASE sample = "allAbsent" -> StoredAllAbsent(channel)
      [] sample = "allFalse" -> StoredAllFalse(channel)
      [] OTHER -> StoredNoBug(channel)

\* queryJiraChannelPrefs(ctx, channel), given what the lookup returned:
\* if (result) mungeJiraPrefs(result), else the defaults.
QueryResult(found, stored, channel) ==
    IF found THEN MungeJiraPrefs(stored) ELSE DefaultPrefs(channel)
QueryJiraChannelPrefs(sample, channel) ==
    QueryResult(sample # "none", StoredRecord(sample, channel), channel)

(***************************************************************************)
(* SpecPrefsFill: queryJiraChannelPrefs on its own, over every stored      *)
(* record (each field true, false or absent) and over no record at all.    *)
(***************************************************************************)
StoredFieldValues == {"true", "false", "absent"}
StoredRecords(channel) ==
    {[f \in PrefFields \cup {"channel"} |->
         IF f = "channel" THEN channel ELSE g[f]] :
       g \in [PrefFields -> StoredFieldValues]}
NoResult == [f \in PrefFields \cup {"channel"} |->
                IF f = "channel" THEN Undefined ELSE FALSE]

\* const result = await cachedJiraPreferenceLookup(ctx, channel) has
\* resolved; lines 303-321 build the record returned.
PrefQueryReturn ==
    /\ prefQuery.pc = "called"
    /\ prefQuery' =
          [prefQuery EXCEPT
              !.pc = "returned",
              !.result = QueryResult(prefQuery.found, prefQuery.stored,
                                     prefQuery.channel)]
    /\ UNCHANGED <<handlerVars, fetchVars, prefVars, routeVars, hashCall,
                   mappingStore, submit>>

FetchIdle ==
    /\ now = 0
    /\ useCacheCfg = FALSE
    /\ jiraCache = <<>>
    /\ lastSet = <<>>
    /\ call = <<>>

InitPrefsFill ==
    /\ FetchIdle
    /\ PrefsIdle
    /\ HandlersIdle
    /\ RouteIdle
    /\ \E ch \in Channels, found \in BOOLEAN :
          \E stored \in IF found THEN StoredRecords(ch)
                          ELSE {StoredAllAbsent(ch)} :
             prefQuery = [pc |-> "called", channel |-> ch, found |-> found,
                          stored |-> stored, result |-> NoResult]
    /\ hashCall = <<>>
    /\ mappingStore = <<>>
    /\ submit = <<>>

NextPrefsFill == PrefQueryReturn

SpecPrefsFill == InitPrefsFill /\ [][NextPrefsFill]_vars

AlwaysOnFields == PrefFields \ {"issueState", "issueStatus"}

\* C14: for every stored record, mungeJiraPrefs returns for each of
\* issueComment, issueDeleted, issueCreated, bug, task, epic, story and
\* subtask the record's own value when the field is defined (false
\* included) and true when it is absent, and returns the channel unchanged.
C14_DefinedKeptAbsentTrue ==
    (prefQuery.pc = "returned" /\ prefQuery.found) =>
        /\ \A f \in AlwaysOnFields :
              /\ prefQuery.stored[f] = "true" => prefQuery.result[f] = TRUE
              /\ prefQuery.stored[f] = "false" => prefQuery.result[f] = FALSE
              /\ prefQuery.stored[f] = "absent" => prefQuery.result[f] = TRUE
        /\ prefQuery.result.channel = prefQuery.stored.channel

\* A record with an absent, a false and a true field went through.
C14_Witness ==
    /\ prefQuery.pc = "returned" /\ prefQuery.found
    /\ prefQuery.stored.bug = "absent" /\ prefQuery.result.bug
    /\ prefQuery.stored.task = "false" /\ ~prefQuery.result.task
    /\ prefQuery.stored.issueComment = "true"
    /\ prefQuery.result.issueComment

\* C15: when no preference record exists for a channel,
\* queryJiraChannelPrefs returns a full record for that channel with
\* issueCreated, issueDeleted, issueComment, bug, task, epic, story and
\* subtask true and issueState and issueStatus false.
C15_MissingRecordDefaults ==
    (prefQuery.pc = "returned" /\ ~prefQuery.found) =>
        /\ DOMAIN prefQuery.result = PrefFields \cup {"channel"}
        /\ prefQuery.result.channel = prefQuery.channel
        /\ \A f \in AlwaysOnFields : prefQuery.result[f] = TRUE
        /\ prefQuery.result.issueState = FALSE
        /\ prefQuery.result.issueStatus = FALSE

\* The query returned for a channel without a record.
C15_Witness ==
    /\ prefQuery.pc = "returned" /\ ~prefQuery.found
    /\ prefQuery.result.channel = "c2"
    /\ prefQuery.result.issueCreated


(***************************************************************************)
(* routeEvent: classification, filtering, composition.                     *)
(***************************************************************************)
WebhookEvents ==
    {"jira:issue_created", "jira:issue_updated", "jira:issue_deleted",
     "comment_created", "jira:worklog_updated"}
\* issue_event_type_name; "null" is the absent sub-classification.
EventTypeNames ==
    {"null", "issue_created", "issue_generic", "issue_updated",
     "issue_assigned", "issue_commented"}
IssueTypes == {"bug", "unknown"}
Issues == {[id |-> "10001", key |-> "PROJ-1"]}
Timestamps == {"t1"}

\* The candidates jiraDetermineNotifyChannels yields: the preference record
\* of every resolved channel, in order, repeats included.
JiraDetermineNotifyChannels(chans, prefsOf) ==
    [i \in 1..Len(chans) |-> QueryJiraChannelPrefs(prefsOf[chans[i]], chans[i])]

\* jiraParseChannels(channels, event, category): the candidates whose
\* category flag and issue-type flag are both enabled; the type flag counts
\* as enabled for an unrecognized issue type.
TypeEnabled(pref, issueType) ==
    IF issueType \in TypeFlags THEN pref[issueType] ELSE TRUE
JiraParseChannels(cands, issueType, category) ==
    LET Keep(c) == c[category] /\ TypeEnabled(c, issueType)
    IN SelectSeq(cands, Keep)

\* newChannels.filter(c => c.issueDeleted === true)
FilterDeleted(cands) ==
    LET Keep(c) == c.issueDeleted IN SelectSeq(cands, Keep)

\* The categories routeEvent filters against, in the order of its four
\* independent tests.
CommentCategoryOnlyForCommentEvent(e) ==
    IF e.hasComment /\ e.webhookEvent = "comment_created"
    THEN <<"issueComment">> ELSE <<>>
CommentCategory(e) == IF e.hasComment THEN <<"issueComment">> ELSE <<>>
UpdateCategoryFallThrough(e) ==
    IF e.typeName = "issue_generic" THEN <<"issueStatus", "issueState">>
    ELSE IF e.typeName \in {"issue_assigned", "issue_updated"}
         THEN <<"issueState">> ELSE <<>>
UpdateCategory(e) ==
    IF e.typeName = "issue_generic" THEN <<"issueStatus">>
    ELSE IF e.typeName \in {"issue_assigned", "issue_updated"}
         THEN <<"issueState">> ELSE <<>>
CreatedCategory(e) ==
    IF e.typeName = "issue_created" THEN <<"issueCreated">> ELSE <<>>
DeletedCategory(e) ==
    IF e.webhookEvent = "jira:issue_deleted" THEN <<"issueDeleted">> ELSE <<>>
RouteCategories(e) ==
    CommentCategory(e) \o UpdateCategory(e) \o CreatedCategory(e)
        \o DeletedCategory(e)

\* channels after the four pushes.
RECURSIVE FilterAll(_, _, _)
FilterAll(cats, cands, issueType) ==
    IF cats = <<>> THEN <<>>
    ELSE (IF Head(cats) = "issueDeleted" THEN FilterDeleted(cands)
          ELSE JiraParseChannels(cands, issueType, Head(cats)))
         \o FilterAll(Tail(cats), cands, issueType)

\* _.uniqBy(channels, "channel"): the first record of each channel, in order.
NoDedupe(s) == s
RECURSIVE UniqByChannel(_)
UniqByChannel(s) ==
    IF s = <<>> THEN <<>>
    ELSE LET r == UniqByChannel(SubSeq(s, 1, Len(s) - 1))
             last == s[Len(s)]
         IN IF \E i \in 1..Len(r) : r[i].channel = last.channel
            THEN r ELSE Append(r, last)

ChannelNames(s) == [i \in 1..Len(s) |-> s[i].channel]

\* Whether the four prepare*Message helpers contribute an attachment.
MessageNonEmpty(e) ==
    \/ e.webhookEvent = "jira:issue_created"
    \/ e.webhookEvent = "jira:issue_deleted"
    \/ e.hasChangelog
    \/ e.hasComment

\* getJiraIssueDescription: the message identity and post mode per
\* webhookEvent; no case of the switch matches any other webhookEvent.
NoMsgOptions == [id |-> <<>>, post |-> Undefined]
MsgIdKindPerWebhookEvent(webhookEvent) ==
    CASE webhookEvent = "comment_created" -> "issue_commented"
      [] webhookEvent = "jira:issue_updated" -> "issue_updated"
      [] webhookEvent = "jira:issue_created" -> "issue_created"
      [] webhookEvent = "jira:issue_deleted" -> "issue_deleted"
      [] OTHER -> Undefined
MsgIdKind(webhookEvent) ==
    CASE webhookEvent \in {"comment_created", "jira:issue_updated"}
            -> "issue_updated"
      [] webhookEvent = "jira:issue_created" -> "issue_created"
      [] webhookEvent = "jira:issue_deleted" -> "issue_deleted"
      [] OTHER -> Undefined
\* id: `jira/<kind>/${event.issue.key}/${event.timestamp}`
MsgIdWithoutTimestamp(kind, key, ts) == <<"jira", kind, key>>
MsgId(kind, key, ts) == <<"jira", kind, key, ts>>
\* post: newEvent ? "always" : "update_only"
PostModeAlways(isNew) == "always"
PostMode(isNew) == IF isNew THEN "always" ELSE "update_only"
MsgOptions(e, isNew) ==
    IF MsgIdKind(e.webhookEvent) = Undefined THEN NoMsgOptions
    ELSE [id |-> MsgId(MsgIdKind(e.webhookEvent), e.issue.key, e.timestamp),
          post |-> PostMode(isNew)]

\* Whether getJiraIssueDescription fetches the transitions.
FetchesTransitions(e) ==
    e.webhookEvent \in
        {"comment_created", "jira:issue_updated", "jira:issue_created"}

(***************************************************************************)
(* routeEvent(ctx, event, newEvent) as a process.                          *)
(***************************************************************************)
\* The longest list of resolved channels the model draws.
MaxCandidates == 2
\* getJiraDetails(buildSelfUrl(id) + "?expand=changelog", true, 30)
DetailTtl == 30
\* getJiraDetails(buildSelfUrl(id) + "/transitions", true, 5)
TransTtl == 5

DetailUrl(id) == <<"issue", id, "?expand=changelog">>
TransUrl(id) == <<"issue", id, "/transitions">>
RouteUrls == UNION {{DetailUrl(i.id), TransUrl(i.id)} : i \in Issues}

\* What upstream answers: the issue detail, and a transitions body that
\* carries a transitions list or no transitions property at all.
DetailBody == "detail"
TransBodies == {"noprop", "some"}

\* A fresh invocation.  pass counts the deliveries of the event (1, or 2 for
\* a redelivery) and first keeps the message options the first one built.
StartRoute ==
    [pc |-> "start", detail |-> Undefined, transitions |-> Undefined,
     msgOptions |-> NoMsgOptions, newChannels |-> <<>>, categories |-> <<>>,
     channels |-> <<>>, sent |-> <<>>, http |-> 0, outcome |-> "running",
     pass |-> 1, first |-> NoMsgOptions]

\* An awaited getJiraDetails threw: nothing catches it, routeEvent rejects
\* where it stands.
OnFetchFailureSendsPartial(r) ==
    [r EXCEPT !.pc = "done", !.outcome = "fetch_failed",
              !.sent = Append(r.sent, [channels |-> <<>>,
                                       options |-> r.msgOptions])]
OnFetchFailure(r) == [r EXCEPT !.pc = "done", !.outcome = "fetch_failed"]

RouteStore(url, body, ttl) ==
    /\ jiraCache' = StoreOnSuccess(useCacheCfg, TRUE, jiraCache, url, body,
                                   ttl, now)
    /\ lastSet' = RecordSet(lastSet, url, body, ttl, now)

\* Line 65: the issue detail through getJiraDetails, up to its first await.
RouteDetailCall ==
    /\ route.pc = "start"
    /\ LET url == DetailUrl(event.issue.id) IN
       route' = IF CacheHit(useCacheCfg, TRUE, jiraCache, url, now)
                THEN [route EXCEPT !.pc = "describe",
                                   !.detail = CacheGet(jiraCache, url, now)]
                ELSE [route EXCEPT !.pc = "detail_wait",
                                   !.http = route.http + 1]
    /\ UNCHANGED <<restVars, fetchVars, prefVars, event, newEvent, resolved,
                   storedPrefs>>

RouteDetailOk ==
    /\ route.pc = "detail_wait"
    /\ RouteStore(DetailUrl(event.issue.id), DetailBody, DetailTtl)
    /\ route' = [route EXCEPT !.pc = "describe", !.detail = DetailBody]
    /\ UNCHANGED <<restVars, now, useCacheCfg, call, prefVars, event,
                   newEvent, resolved, storedPrefs>>

\* getJiraDetails threw: routeEvent rejects with it.
RouteDetailFail ==
    /\ route.pc = "detail_wait"
    /\ route' = OnFetchFailure(route)
    /\ UNCHANGED <<restVars, fetchVars, prefVars, event, newEvent, resolved,
                   storedPrefs>>

\* Line 68: getJiraIssueDescription, up to its first await.
RouteDescribe ==
    /\ route.pc = "describe"
    /\ LET url == TransUrl(event.issue.id) IN
       route' =
          IF ~FetchesTransitions(event)
          THEN [route EXCEPT !.pc = "resolve",
                             !.msgOptions = MsgOptions(event, newEvent)]
          ELSE IF CacheHit(useCacheCfg, TRUE, jiraCache, url, now)
          THEN [route EXCEPT !.pc = "resolve",
                             !.transitions = CacheGet(jiraCache, url, now),
                             !.msgOptions = MsgOptions(event, newEvent)]
          ELSE [route EXCEPT !.pc = "trans_wait", !.http = route.http + 1]
    /\ UNCHANGED <<restVars, fetchVars, prefVars, event, newEvent, resolved,
                   storedPrefs>>

RouteTransOk(body) ==
    /\ route.pc = "trans_wait"
    /\ RouteStore(TransUrl(event.issue.id), body, TransTtl)
    /\ route' = [route EXCEPT !.pc = "resolve", !.transitions = body,
                              !.msgOptions = MsgOptions(event, newEvent)]
    /\ UNCHANGED <<restVars, now, useCacheCfg, call, prefVars, event,
                   newEvent, resolved, storedPrefs>>

RouteTransFail ==
    /\ route.pc = "trans_wait"
    /\ route' = OnFetchFailure(route)
    /\ UNCHANGED <<restVars, fetchVars, prefVars, event, newEvent, resolved,
                   storedPrefs>>

\* Lines 70-101: the candidates, then the four tests and their filters.
RouteResolve ==
    /\ route.pc = "resolve"
    /\ LET cands == JiraDetermineNotifyChannels(resolved, storedPrefs)
           cats == RouteCategories(event)
       IN route' = [route EXCEPT
                       !.pc = "compose",
                       !.newChannels = cands,
                       !.categories = cats,
                       !.channels = FilterAll(cats, cands, event.issueType)]
    /\ UNCHANGED <<restVars, fetchVars, prefVars, event, newEvent, resolved,
                   storedPrefs>>

\* A mapping or preference lookup failed: routeEvent rejects with it.
RouteResolveFail ==
    /\ route.pc = "resolve"
    /\ route' = [route EXCEPT !.pc = "done", !.outcome = "lookup_failed"]
    /\ UNCHANGED <<restVars, fetchVars, prefVars, event, newEvent, resolved,
                   storedPrefs>>

\* Lines 103-156.  issueTransitions.hasOwnProperty(...) at line 112 and
\* issueTransitions.transitions.length at line 133 throw a TypeError when
\* what they dereference is undefined.
ComposeOutcomeIgnoringMessage(e, r) ==
    IF r.transitions = Undefined THEN "type_error"
    ELSE IF r.channels # <<>>
         THEN (IF r.transitions = "noprop" THEN "type_error" ELSE "sent")
         ELSE "dropped"
ComposeOutcome(e, r) ==
    IF r.transitions = Undefined THEN "type_error"
    ELSE IF MessageNonEmpty(e) /\ r.channels # <<>>
         THEN (IF r.transitions = "noprop" THEN "type_error" ELSE "sent")
         ELSE "dropped"

RouteCompose ==
    /\ route.pc = "compose"
    /\ LET out == ComposeOutcome(event, route) IN
       route' = [route EXCEPT
                    !.pc = "done",
                    !.outcome = out,
                    !.sent = IF out = "sent"
                             THEN Append(route.sent,
                                    [channels |-> ChannelNames(
                                         UniqByChannel(route.channels)),
                                     options |-> route.msgOptions])
                             ELSE route.sent]
    /\ UNCHANGED <<restVars, fetchVars, prefVars, event, newEvent, resolved,
                   storedPrefs>>

\* The transport delivers the same event again (at-least-once delivery): a
\* second routeEvent invocation on it, once the first has settled.
RouteRedeliver(isNew) ==
    /\ route.pc = "done"
    /\ route.pass = 1
    /\ route' = [StartRoute EXCEPT !.pass = 2, !.first = route.msgOptions]
    /\ newEvent' = isNew
    /\ UNCHANGED <<restVars, fetchVars, prefVars, event, resolved,
                   storedPrefs>>

SeqsUpTo(S, n) == UNION {[1..k -> S] : k \in 0..n}
InSeq(x, q) == \E i \in 1..Len(q) : q[i] = x

InitRoute ==
    /\ now = 0
    /\ useCacheCfg \in BOOLEAN
    /\ \E warm \in BOOLEAN :
          /\ warm => useCacheCfg
          /\ jiraCache =
                [u \in RouteUrls |->
                    IF ~warm THEN NoEntry
                    ELSE IF u[3] = "/transitions"
                    THEN [present |-> TRUE, value |-> "some",
                          expiry |-> TransTtl]
                    ELSE [present |-> TRUE, value |-> DetailBody,
                          expiry |-> DetailTtl]]
          /\ lastSet =
                [u \in RouteUrls |->
                    IF ~warm THEN NoSet
                    ELSE [set |-> TRUE, value |-> jiraCache[u].value,
                          until |-> jiraCache[u].expiry]]
    /\ call = [p \in Callers |-> IdleCall]
    /\ PrefsIdle
    /\ HandlersIdle
    /\ event \in [webhookEvent : WebhookEvents, typeName : EventTypeNames,
                  hasComment : BOOLEAN, hasChangelog : BOOLEAN,
                  issueType : IssueTypes, issue : Issues,
                  timestamp : Timestamps]
    /\ newEvent \in BOOLEAN
    /\ resolved \in SeqsUpTo(Channels, MaxCandidates)
    \* Channel names are interchangeable: the first resolved one is "c1".
    /\ resolved # <<>> => resolved[1] = "c1"
    /\ storedPrefs \in [Channels -> PrefSamples]
    /\ \A c \in Channels : ~InSeq(c, resolved) => storedPrefs[c] = "none"
    /\ route = StartRoute
    /\ CmdIdle

NextRoute ==
    \/ RouteDetailCall
    \/ RouteDetailOk
    \/ RouteDetailFail
    \/ RouteDescribe
    \/ \E b \in TransBodies : RouteTransOk(b)
    \/ RouteTransFail
    \/ RouteResolve
    \/ RouteResolveFail
    \/ RouteCompose

SpecRoute == InitRoute /\ [][NextRoute]_vars

(***************************************************************************)
(* SpecRedeliver: an event routed and then delivered and routed again, for *)
(* one issue type and at most one resolved channel.                        *)
(***************************************************************************)
InitRedeliver ==
    /\ InitRoute
    /\ event.issueType = "bug"
    /\ Len(resolved) <= 1
    /\ \A c \in Channels : storedPrefs[c] \in {"none", "noBug"}

NextRedeliver ==
    \/ RouteDetailCall
    \/ RouteDetailOk
    \/ RouteDetailFail
    \/ RouteDescribe
    \/ \E b \in TransBodies : RouteTransOk(b)
    \/ RouteTransFail
    \/ RouteResolve
    \/ RouteResolveFail
    \/ RouteCompose
    \/ \E isNew \in BOOLEAN : RouteRedeliver(isNew)

SpecRedeliver == InitRedeliver /\ [][NextRedeliver]_vars

(***************************************************************************)
(* Properties of routeEvent.                                               *)
(***************************************************************************)
LookupsFailed == route.outcome \in {"fetch_failed", "lookup_failed"}
\* The route has passed its filtering step (lines 70-101).
Filtered == route.pc = "compose" \/ (route.pc = "done" /\ ~LookupsFailed)
Count(x, q) == Cardinality({i \in 1..Len(q) : q[i] = x})

\* The category the table of section 4.4 gives a pair, "none" otherwise.
TableCategory(e) ==
    CASE e.webhookEvent = "jira:issue_created" /\ e.typeName = "issue_created"
            -> "issueCreated"
      [] e.webhookEvent = "jira:issue_deleted" -> "issueDeleted"
      [] e.webhookEvent = "comment_created" -> "issueComment"
      [] e.webhookEvent = "jira:issue_updated" /\ e.typeName = "issue_generic"
            -> "issueStatus"
      [] e.webhookEvent = "jira:issue_updated"
            /\ e.typeName \in {"issue_updated", "issue_assigned"}
            -> "issueState"
      [] OTHER -> "none"

\* C6 as stated: every event is filtered against at most one category.
C6_AtMostOneCategory == Len(route.categories) <= 1

\* C6 as amended: every event is filtered against each category whose test
\* holds, each at most once and at most three in all; issueStatus,
\* issueState and issueCreated (chosen by issue_event_type_name) exclude
\* one another, while issueComment and issueDeleted are independent of them.
C6_ExclusiveByTypeName ==
    /\ \A i \in 1..Len(route.categories) : route.categories[i] \in Categories
    /\ \A c \in Categories : Count(c, route.categories) <= 1
    /\ Count("issueStatus", route.categories)
          + Count("issueState", route.categories)
          + Count("issueCreated", route.categories) <= 1
    /\ Len(route.categories) <= 3

\* One event filtered against three categories.
C6_Witness ==
    /\ Filtered
    /\ route.categories = <<"issueComment", "issueState", "issueDeleted">>

\* C7 as stated: the category is the table's for the listed pairs, and any
\* other pair gets no category and no notified channel.
C7_TableClassification ==
    Filtered =>
        /\ route.categories =
              IF TableCategory(event) = "none" THEN <<>>
              ELSE <<TableCategory(event)>>
        /\ TableCategory(event) = "none" =>
              (route.channels = <<>> /\ route.sent = <<>>)

\* C7 as amended: the categories are assigned by routeEvent's own tests -
\* issueComment iff the comment is non-null, issueStatus iff the type name
\* is issue_generic, issueState iff it is issue_updated or issue_assigned,
\* issueCreated iff it is issue_created, issueDeleted iff webhookEvent is
\* jira:issue_deleted - and an event that passes none of them gets no
\* category, an empty channel list and no notification.
C7_ClassifiedByTests ==
    Filtered =>
        /\ InSeq("issueComment", route.categories) <=> event.hasComment
        /\ InSeq("issueStatus", route.categories)
              <=> event.typeName = "issue_generic"
        /\ InSeq("issueState", route.categories)
              <=> event.typeName \in {"issue_updated", "issue_assigned"}
        /\ InSeq("issueCreated", route.categories)
              <=> event.typeName = "issue_created"
        /\ InSeq("issueDeleted", route.categories)
              <=> event.webhookEvent = "jira:issue_deleted"
        /\ route.categories = <<>> =>
              (route.channels = <<>> /\ route.sent = <<>>)

\* A pair outside the table is assigned a category and notified.
C7_Witness ==
    /\ route.pc = "done"
    /\ event.webhookEvent = "jira:issue_updated"
    /\ event.typeName = "issue_created"
    /\ route.categories = <<"issueCreated">>
    /\ route.outcome = "sent"

\* An event no reading recognizes: outside the table, passing no test.
Unrecognized(e) == TableCategory(e) = "none" /\ RouteCategories(e) = <<>>

\* C8: for an unrecognized event whose lookups succeed, routeEvent
\* completes normally with an empty channel list and sends nothing.
C8_UnrecognizedDropped ==
    (route.pc = "done" /\ Unrecognized(event) /\ ~LookupsFailed) =>
        /\ route.outcome = "dropped"
        /\ route.channels = <<>>
        /\ route.sent = <<>>

\* C9: a jira:issue_deleted event whose lookups succeed, with a non-empty
\* message and a candidate whose issueDeleted preference is true, ends with
\* one notification sent, addressed to each such candidate.
C9_DeletedDelivered ==
    (/\ route.pc = "done"
     /\ event.webhookEvent = "jira:issue_deleted"
     /\ ~LookupsFailed
     /\ MessageNonEmpty(event)
     /\ FilterDeleted(route.newChannels) # <<>>) =>
        /\ route.outcome = "sent"
        /\ Len(route.sent) = 1
        /\ \A i \in 1..Len(route.newChannels) :
              route.newChannels[i].issueDeleted =>
                  InSeq(route.newChannels[i].channel, route.sent[1].channels)

\* The scenario of C10: one resolved channel with no stored preferences
\* (so the defaults apply), lookups that succeed, a well-formed transitions
\* response.
OneDefaultChannel ==
    /\ route.pc = "done"
    /\ event.webhookEvent = "jira:issue_created"
    /\ resolved = <<"c1">>
    /\ storedPrefs["c1"] = "none"
    /\ ~LookupsFailed
    /\ route.transitions # "noprop"

OneCreatedNotification ==
    /\ Len(route.sent) = 1
    /\ route.sent[1].channels = <<"c1">>
    /\ route.sent[1].options.id =
          <<"jira", "issue_created", event.issue.key, event.timestamp>>

MappingFields == {"projectId", "channel", "componentId"}
JsUndefined == <<"undefined">>
JsStr(x) == <<"string", x>>
PayloadValues == {JsUndefined, JsStr("A"), JsStr("undefined")}

HasField(payload, f) == \E i \in 1..Len(payload) : payload[i][1] = f
\* payload.f: undefined when the payload has no such property.
Field(payload, f) ==
    IF HasField(payload, f)
    THEN payload[CHOOSE i \in 1..Len(payload) : payload[i][1] = f][2]
    ELSE JsUndefined
Properties(payload) == {payload[i] : i \in 1..Len(payload)}

\* "-" + x || "": the sum is evaluated first and is never empty, so the
\* part is always "-" followed by x as a string ("undefined" for undefined).
Dashed(v) == IF v = JsUndefined THEN "undefined" ELSE v[2]

\* objectHash(payload): a digest of the sorted property names, each with
\* its value, the count of properties included; a property holding
\* undefined is hashed like any other.
ObjectHashInsertionOrder(payload) == payload
ObjectHash(payload) == Properties(payload)

BuildJiraHashKeyWithoutHash(workspaceId, payload) ==
    <<workspaceId, Dashed(Field(payload, "componentId")),
      Dashed(Field(payload, "projectId")),
      Dashed(Field(payload, "channel")), {}>>
BuildJiraHashKey(workspaceId, payload) ==
    <<workspaceId, Dashed(Field(payload, "componentId")),
      Dashed(Field(payload, "projectId")),
      Dashed(Field(payload, "channel")), ObjectHash(payload)>>

\* Every payload over the three fields: any subset of them, in any order.
Payloads ==
    {q \in SeqsUpTo(MappingFields \X PayloadValues,
                    Cardinality(MappingFields)) :
        \A i, j \in 1..Len(q) : q[i][1] = q[j][1] => i = j}

\* Two calls of buildJiraHashKey, on payloads p and q.
BuildJiraHashKeys ==
    /\ hashCall.pc = "called"
    /\ hashCall' = [hashCall EXCEPT
                       !.pc = "returned",
                       !.kp = BuildJiraHashKey(hashCall.ws, hashCall.p),
                       !.kq = BuildJiraHashKey(hashCall.ws, hashCall.q)]
    /\ UNCHANGED <<handlerVars, fetchVars, prefVars, routeVars, prefQuery,
                   mappingStore, submit>>

InitHashKey ==
    /\ FetchIdle
    /\ PrefsIdle
    /\ HandlersIdle
    /\ RouteIdle
    /\ prefQuery = <<>>
    /\ \E p \in Payloads, q \in Payloads :
          hashCall = [pc |-> "called", ws |-> Workspace, p |-> p, q |-> q,
                      kp |-> <<>>, kq |-> <<>>]
    /\ mappingStore = <<>>
    /\ submit = <<>>

NextHashKey == BuildJiraHashKeys

SpecHashKey == InitHashKey /\ [][NextHashKey]_vars

\* q is p with one more property, holding undefined.
AddsUndefinedField(p, q) ==
    \E f \in MappingFields :
        /\ ~HasField(p, f)
        /\ Properties(q) = Properties(p) \cup {<<f, JsUndefined>>}

\* C17: buildJiraHashKey depends only on the workspace and on the
\* payload's properties and their values, not on the order they were
\* inserted in; and a payload in which a field is absent and the payload
\* that has the field with value undefined get different keys.
C17_OrderFreeAndNoCollision ==
    hashCall.pc = "returned" =>
        /\ Properties(hashCall.p) = Properties(hashCall.q) =>
              hashCall.kp = hashCall.kq
        /\ AddsUndefinedField(hashCall.p, hashCall.q) =>
              hashCall.kp # hashCall.kq

\* {projectId: "A"} against {projectId: "A", componentId: undefined}: same
\* concatenated part, different keys.
C17_Witness ==
    /\ hashCall.pc = "returned"
    /\ hashCall.p = <<<<"projectId", JsStr("A")>>>>
    /\ hashCall.q = <<<<"projectId", JsStr("A")>>,
                      <<"componentId", JsUndefined>>>>
    /\ hashCall.kp[2] = hashCall.kq[2]
    /\ hashCall.kp # hashCall.kq

(***************************************************************************)
(* submitMappingPayload(ci, payload, active = true) over the JIRAMappings  *)
(* scope of the preference store, with the cache in front of the mapping   *)
(* lookups.                                                                *)
(***************************************************************************)
\* {projectId, channel} or {projectId, channel, componentId}; comp is
\* "absent", "undefined" or the component id.
MappingPayload(proj, chan, comp) ==
    <<<<"projectId", JsStr(proj)>>, <<"channel", JsStr(chan)>>>> \o
    (IF comp = "absent" THEN <<>>
     ELSE <<<<"componentId",
              IF comp = "undefined" THEN JsUndefined ELSE JsStr(comp)>>>>)

\* A base payload and the payloads that differ from it in the project, in
\* the channel, or in the component (given, or present but undefined).
MappingPayloads ==
    {MappingPayload("A", "c1", "absent"),
     MappingPayload("B", "c1", "absent"),
     MappingPayload("A", "c2", "absent"),
     MappingPayload("A", "c1", "X"),
     MappingPayload("A", "c1", "undefined")}

\* {channel: payload.channel, projectId: undefined, componentId: undefined}
ChannelOnly(payload) ==
    <<<<"channel", Field(payload, "channel")>>,
      <<"projectId", JsUndefined>>, <<"componentId", JsUndefined>>>>

MappingKeys == {BuildJiraHashKey(Workspace, q) : q \in MappingPayloads}
MappingCacheKeys ==
    MappingKeys \cup
    {BuildJiraHashKey(Workspace, ChannelOnly(q)) : q \in MappingPayloads}

NoRecord == [present |-> FALSE, payload |-> <<>>]
StoredMapping(payload) == [present |-> TRUE, payload |-> payload]

\* prefStore.put(key, payload, scope) / prefStore.delete(key, scope)
StorePut(store, key, payload) ==
    [store EXCEPT ![key] = StoredMapping(payload)]
\* A delete that empties the scope, and one that removes nothing.
StoreDeleteAll(store, key) == [k \in DOMAIN store |-> NoRecord]
StoreDeleteNothing(store, key) == store
StoreDelete(store, key) == [store EXCEPT ![key] = NoRecord]

IdleSubmit == [pc |-> "idle", workspace |-> Workspace,
               payload |-> MappingPayload("A", "c1", "absent"),
               active |-> TRUE, hadRecord |-> FALSE]

\* Lines 69-81: the awaited put (active) or delete (not active) took effect
\* at the store and resolved.  hadRecord notes whether the store already
\* held this payload (history).
SubmitStoreIn(workspaceId, payload, active) ==
    /\ submit.pc \in {"idle", "resolved", "rejected"}
    /\ LET key == BuildJiraHashKey(workspaceId, payload) IN
       /\ mappingStore' = IF active THEN StorePut(mappingStore, key, payload)
                                     ELSE StoreDelete(mappingStore, key)
       /\ submit' = [pc |-> "purge_own", workspace |-> workspaceId,
                     payload |-> payload, active |-> active,
                     hadRecord |-> mappingStore[key] = StoredMapping(payload)]
    /\ UNCHANGED <<handlerVars, fetchVars, prefVars, routeVars, prefQuery,
                   hashCall>>
SubmitStore(payload, active) == SubmitStoreIn(Workspace, payload, active)

\* The put or delete rejected: caught at line 86, reject(e).
SubmitStoreFailIn(workspaceId, payload, active) ==
    /\ submit.pc \in {"idle", "resolved", "rejected"}
    /\ submit' = [pc |-> "rejected", workspace |-> workspaceId,
                  payload |-> payload, active |-> active,
                  hadRecord |-> FALSE]
    /\ UNCHANGED <<handlerVars, fetchVars, prefVars, routeVars, prefQuery,
                   hashCall, mappingStore>>
SubmitStoreFail(payload, active) ==
    SubmitStoreFailIn(Workspace, payload, active)

SubmitPurgeKey(k, nextPc) ==
    /\ jiraCache' = PurgeCacheEntry(jiraCache, k)
    /\ lastSet' = IF jiraCache' # jiraCache
                  THEN [lastSet EXCEPT ![k] = NoSet] ELSE lastSet
    /\ submit' = [submit EXCEPT !.pc = nextPc]
    /\ UNCHANGED <<handlerVars, now, useCacheCfg, call, prefVars, routeVars,
                   prefQuery, hashCall, mappingStore>>

\* Line 83: await purgeCacheEntry(buildJiraHashKey(workspaceId, payload))
SubmitPurgeOwn ==
    /\ submit.pc = "purge_own"
    /\ SubmitPurgeKey(BuildJiraHashKey(submit.workspace, submit.payload),
                      "purge_channel")

\* Lines 84-85: the purge of the channel-only key, then resolve().
SubmitPurgeChannel ==
    /\ submit.pc = "purge_channel"
    /\ SubmitPurgeKey(BuildJiraHashKey(submit.workspace,
                                       ChannelOnly(submit.payload)),
                      "resolved")

\* A purge rejected: caught at line 86, reject(e).
SubmitPurgeFail ==
    /\ submit.pc \in {"purge_own", "purge_channel"}
    /\ submit' = [submit EXCEPT !.pc = "rejected"]
    /\ UNCHANGED <<handlerVars, fetchVars, prefVars, routeVars, prefQuery,
                   hashCall, mappingStore>>

\* A cached mapping lookup missed, read the store and cached what it read.
MappingLookupFill(k) ==
    /\ ~Live(jiraCache[k], now)
    /\ jiraCache' = CacheSet(jiraCache, k, "mappings", PrefTtl, now)
    /\ lastSet' = RecordSet(lastSet, k, "mappings", PrefTtl, now)
    /\ UNCHANGED <<handlerVars, now, useCacheCfg, call, prefVars, routeVars,
                   cmdVars>>

InitMapping ==
    /\ now = 0
    /\ useCacheCfg = TRUE
    /\ jiraCache = [k \in MappingCacheKeys |-> NoEntry]
    /\ lastSet = [k \in MappingCacheKeys |-> NoSet]
    /\ call = [p \in Callers |-> IdleCall]
    /\ PrefsIdle
    /\ HandlersIdle
    /\ RouteIdle
    /\ prefQuery = <<>>
    /\ hashCall = <<>>
    /\ mappingStore = [k \in MappingKeys |-> NoRecord]
    /\ submit = IdleSubmit

NextMapping ==
    \/ \E q \in MappingPayloads, a \in BOOLEAN : SubmitStore(q, a)
    \/ \E q \in MappingPayloads, a \in BOOLEAN : SubmitStoreFail(q, a)
    \/ SubmitPurgeOwn
    \/ SubmitPurgeChannel
    \/ SubmitPurgeFail
    \/ \E k \in MappingCacheKeys : MappingLookupFill(k)

SpecMapping == InitMapping /\ [][NextMapping]_vars

RecordsOf(store, payload) ==
    {k \in DOMAIN store : store[k] = StoredMapping(payload)}

\* C18: submitMappingPayload with active = true is an idempotent upsert:
\* the step that stores a payload leaves exactly one record for it, under
\* its key; when the store already held that record the step leaves the
\* store as it was; and the record (or absence of one) of every payload
\* that differs in project, component or channel stays as it was.
C18_IdempotentUpsert ==
    [][(submit'.pc = "purge_own" /\ submit.pc # "purge_own"
           /\ submit'.active) =>
          LET q == submit'.payload
              k == BuildJiraHashKey(Workspace, q)
          IN /\ mappingStore'[k] = StoredMapping(q)
             /\ Cardinality(RecordsOf(mappingStore', q)) = 1
             /\ submit'.hadRecord => mappingStore' = mappingStore
             /\ \A o \in MappingPayloads \ {q} :
                   LET ko == BuildJiraHashKey(Workspace, o) IN
                   mappingStore'[ko] = mappingStore[ko]
      ]_cmdVars

\* A payload was submitted again while its record and the records of the
\* payloads that differ from it in one field were all in the store.
C18_Witness ==
    /\ submit.pc = "resolved" /\ submit.active /\ submit.hadRecord
    /\ submit.payload = MappingPayload("A", "c1", "absent")
    /\ \A o \in MappingPayloads :
          Cardinality(RecordsOf(mappingStore, o)) = 1

(***************************************************************************)
(* Message identity and post mode across deliveries.                       *)
(***************************************************************************)
RecognizedWebhook(e) == MsgIdKind(e.webhookEvent) # Undefined
\* The invocation has come back from getJiraIssueDescription.
Described == route.pc \in {"resolve", "compose"} \/
             (route.pc = "done" /\ route.outcome # "fetch_failed")

\* C11: routing the same event twice builds the same message identity both
\* times; for every recognized webhookEvent the post mode built is
\* "update_only" exactly when newEvent is false and "always" exactly when it
\* is true; and every notification sent carries those options, so a
\* redelivery routed with newEvent false updates the first notification.
C11_StableIdentityAndPostMode ==
    /\ (Described /\ RecognizedWebhook(event)) =>
          /\ route.msgOptions # NoMsgOptions
          /\ route.msgOptions.id =
                <<"jira", MsgIdKind(event.webhookEvent), event.issue.key,
                  event.timestamp>>
          /\ route.msgOptions.post = "update_only" <=> ~newEvent
          /\ route.msgOptions.post = "always" <=> newEvent
    /\ (Described /\ route.pass = 2 /\ route.first # NoMsgOptions) =>
          route.msgOptions.id = route.first.id
    /\ \A i \in 1..Len(route.sent) :
          route.sent[i].options = route.msgOptions

\* A notification posted with "always" was followed by a redelivery whose
\* notification carries the same identity and "update_only".
C11_Witness ==
    /\ route.pass = 2
    /\ route.first.post = "always"
    /\ route.outcome = "sent"
    /\ route.sent[1].options.id = route.first.id
    /\ route.sent[1].options.post = "update_only"

(***************************************************************************)
(* The addressed channel list.                                             *)
(***************************************************************************)
NoRepeats(q) == \A i, j \in 1..Len(q) : q[i] = q[j] => i = j

\* C12: in every notification routeEvent sends, the addressed channel list
\* holds each channel identifier at most once, and holds every channel that
\* passed a filter, however many rules or categories nominated it.
C12_ChannelsDeduplicated ==
    \A n \in 1..Len(route.sent) :
        /\ NoRepeats(route.sent[n].channels)
        /\ \A i \in 1..Len(route.channels) :
              InSeq(route.channels[i].channel, route.sent[n].channels)

\* A notification went out for a channel that was nominated more than once.
C12_Witness ==
    /\ route.outcome = "sent"
    /\ \E i, j \in 1..Len(route.channels) :
          i # j /\ route.channels[i].channel = route.channels[j].channel
    /\ Len(route.sent[1].channels) < Len(route.channels)

(***************************************************************************)
(* Preference defaults as the filter sees them.                            *)
(***************************************************************************)
ChannelIn(ch, recs) == \E i \in 1..Len(recs) : recs[i].channel = ch

\* C13: a stored record in which issueState (issueStatus) is absent yields
\* issueState = false (issueStatus = false), so a channel whose stored
\* record is only {channel} is excluded when the event is filtered for
\* category issueState.
C13_AbsentStateStatusDisabled ==
    Filtered =>
        \A i \in 1..Len(route.newChannels) :
            LET rec == route.newChannels[i] IN
            storedPrefs[rec.channel] = "allAbsent" =>
                /\ ~rec.issueState
                /\ ~rec.issueStatus
                /\ route.categories = <<"issueState">> =>
                      ~ChannelIn(rec.channel, route.channels)

C19_FailureSendsNothing ==
    /\ LookupsFailed => (route.pc = "done" /\ route.sent = <<>>)
    /\ Len(route.sent) <= 1
    /\ route.sent # <<>> =>
          /\ route.pc = "done" /\ route.outcome = "sent"
          /\ route.detail # Undefined
          /\ route.transitions # Undefined
          /\ route.newChannels # <<>>

\* The transitions fetch failed after the issue detail had been fetched,
\* for an event with a resolved channel; nothing was sent.
C19_Witness ==
    /\ route.pc = "done" /\ route.outcome = "fetch_failed"
    /\ route.detail # Undefined
    /\ resolved # <<>>
    /\ route.sent = <<>>

\* C20: whenever the candidate-channel set resolved for an event is empty,
\* routeEvent sends nothing, and for an event of a recognized category
\* whose fetches succeed it completes without error.
C20_EmptyCandidatesDropped ==
    (route.pc = "done" /\ resolved = <<>> /\ ~LookupsFailed) =>
        /\ route.sent = <<>>
        /\ TableCategory(event) # "none" => route.outcome = "dropped"

(***************************************************************************)
(* onJiraIssueEventApprovalHandler(goal): the approval-state handler.      *)
(***************************************************************************)
Markers == {"sha", "owner", "repo", "branch"}
\* A marker in the issue description: not there, there with nothing after
\* the last colon, or there with a value.
MarkerStates == {"missing", "empty", "value"}
ApprovalWebhookEvents == {"jira:issue_updated", "jira:issue_created"}
ApprovalTypeNames ==
    {"null", "issue_generic", "issue_updated", "issue_assigned",
     "issue_created"}
\* event.changelog: null, items without a status item, or items whose
\* status item has toString "Approved" or another status name.
Changelogs == {"null", "nostatus", "approved", "rejected"}

\* /\[atomist:sha:(.*)\]/gm.exec(description)[1]: exec yields null when the
\* marker is missing and reading [1] of null throws; otherwise the captured
\* text, which is empty (falsy) for an empty marker.
ExecThrows(markers) == \E m \in Markers : markers[m] = "missing"
SomeMarkerFalsy(markers) == \E m \in Markers : markers[m] = "empty"

\* Lines 43-47: the event is not a state change.
WrongEventType(a) ==
    \/ a.webhookEvent # "jira:issue_updated"
    \/ a.typeName \notin {"issue_generic", "issue_updated", "issue_assigned"}
    \/ a.changelog = "null"

\* status[0].toString === "Approved", toString being the field of the
\* changelog item that names the new status.
StatusNeverApproved(changelog) == FALSE
StatusApproved(changelog) == changelog = "approved"

\* Lines 32-55, run without a pause once the issue has been fetched: where
\* the handler stands at its next await, or how it ended.
AfterFetch(a) ==
    IF ExecThrows(a.markers)
    THEN [a EXCEPT !.pc = "done", !.outcome = "type_error"]
    ELSE IF SomeMarkerFalsy(a.markers)
    THEN [a EXCEPT !.pc = "done", !.outcome = "success"]
    ELSE IF a.webhookEvent = "jira:issue_updated" /\ a.typeName = "null"
    THEN [a EXCEPT !.pc = "done", !.outcome = "type_error"]
    ELSE IF WrongEventType(a)
    THEN [a EXCEPT !.pc = "done", !.outcome = "success"]
    ELSE IF a.changelog = "nostatus"
    THEN [a EXCEPT !.pc = "done", !.outcome = "type_error"]
    ELSE IF StatusApproved(a.changelog)
    THEN [a EXCEPT !.pc = "query_goal", !.goalQueried = TRUE]
    ELSE [a EXCEPT !.pc = "done", !.outcome = "success"]

\* Line 29: await getJiraDetails(issue.self) resolved.
ApprovalFetchOk ==
    /\ approval.pc = "fetching"
    /\ approval' = AfterFetch(approval)
    /\ UNCHANGED <<fetchVars, prefVars, routeVars, cmdVars, race,
                   storeBefore, descCall>>

\* Line 29: getJiraDetails threw; the handler rejects.
ApprovalFetchFail ==
    /\ approval.pc = "fetching"
    /\ approval' = [approval EXCEPT !.pc = "done", !.outcome = "fetch_failed"]
    /\ UNCHANGED <<fetchVars, prefVars, routeVars, cmdVars, race,
                   storeBefore, descCall>>

\* Lines 63-72: the goal query resolved; without a goal the handler returns.
ApprovalQueryOk ==
    /\ approval.pc = "query_goal"
    /\ approval' = IF approval.goalExists
                   THEN [approval EXCEPT !.pc = "find_goal"]
                   ELSE [approval EXCEPT !.pc = "done", !.outcome = "success"]
    /\ UNCHANGED <<fetchVars, prefVars, routeVars, cmdVars, race,
                   storeBefore, descCall>>

\* Lines 74-79: findSdmGoalOnCommit resolved.
ApprovalFindOk ==
    /\ approval.pc = "find_goal"
    /\ approval' = [approval EXCEPT !.pc = "update_goal"]
    /\ UNCHANGED <<fetchVars, prefVars, routeVars, cmdVars, race,
                   storeBefore, descCall>>

\* Lines 82-89: updateGoal(ctx, sdmGoal, {state: success}) resolved.
ApprovalUpdateOk ==
    /\ approval.pc = "update_goal"
    /\ approval' = [approval EXCEPT !.pc = "done", !.outcome = "success",
                                    !.goalState = "success"]
    /\ UNCHANGED <<fetchVars, prefVars, routeVars, cmdVars, race,
                   storeBefore, descCall>>

\* One of the awaited goal calls rejected; the handler rejects with it.
ApprovalAwaitFail ==
    /\ approval.pc \in {"query_goal", "find_goal", "update_goal"}
    /\ approval' = [approval EXCEPT !.pc = "done", !.outcome = "rejected"]
    /\ UNCHANGED <<fetchVars, prefVars, routeVars, cmdVars, race,
                   storeBefore, descCall>>

InitApproval ==
    /\ FetchIdle
    /\ PrefsIdle
    /\ RouteIdle
    /\ CmdIdle
    /\ approval \in
          [pc : {"fetching"}, markers : [Markers -> MarkerStates],
           webhookEvent : ApprovalWebhookEvents, typeName : ApprovalTypeNames,
           changelog : Changelogs, goalExists : BOOLEAN,
           goalQueried : {FALSE}, goalState : {"requested"},
           outcome : {"running"}]
    /\ race = <<>>
    /\ storeBefore = <<>>
    /\ descCall = <<>>

NextApproval ==
    \/ ApprovalFetchOk
    \/ ApprovalFetchFail
    \/ ApprovalQueryOk
    \/ ApprovalFindOk
    \/ ApprovalUpdateOk
    \/ ApprovalAwaitFail

SpecApproval == InitApproval /\ [][NextApproval]_vars

AllMarkersPresent(a) == \A m \in Markers : a.markers[m] = "value"
StateChangeEvent(a) ==
    /\ a.webhookEvent = "jira:issue_updated"
    /\ a.typeName \in {"issue_generic", "issue_updated", "issue_assigned"}
    /\ a.changelog \in {"approved", "rejected"}

\* C21: when the description lacks one of the four markers and the issue
\* was fetched, the handler returns Success without throwing and without
\* querying or updating a goal.
C21_MissingMarkerIsNoOp ==
    (approval.pc = "done" /\ approval.outcome # "fetch_failed"
        /\ ExecThrows(approval.markers)) =>
        /\ approval.outcome = "success"
        /\ ~approval.goalQueried
        /\ approval.goalState = "requested"

\* C27: for a jira:issue_updated event of type issue_generic, issue_updated
\* or issue_assigned whose description carries all four markers, a status
\* change to "Approved" with a matching goal ends, the awaited calls
\* succeeding, with that goal updated to success; a status change to
\* anything else ends in Success with no goal queried or updated.
C27_ApprovedUpdatesGoal ==
    (/\ approval.pc = "done"
     /\ approval.outcome \notin {"fetch_failed", "rejected"}
     /\ AllMarkersPresent(approval)
     /\ StateChangeEvent(approval)) =>
        /\ approval.outcome = "success"
        /\ (approval.changelog = "approved" /\ approval.goalExists) =>
              (approval.goalQueried /\ approval.goalState = "success")
        /\ approval.changelog # "approved" =>
              (~approval.goalQueried /\ approval.goalState = "requested")

\* An approval went through to the goal update.
C27_Witness ==
    /\ approval.pc = "done" /\ approval.outcome = "success"
    /\ approval.changelog = "approved" /\ approval.goalExists
    /\ approval.typeName = "issue_generic"
    /\ approval.goalState = "success"

(***************************************************************************)
(* Invalidation by submitMappingPayload.                                   *)
(***************************************************************************)
SameChannel(p, q) == Field(p, "channel") = Field(q, "channel")

\* C22: the purge of the channel-only key of a channel leaves no cached
\* entry under any compound project/component+channel key of that channel.
C22_ChannelPurgeCoversCompound ==
    [][(submit.pc = "purge_channel" /\ submit'.pc = "resolved") =>
          \A q \in MappingPayloads :
              SameChannel(q, submit.payload) =>
                  ~jiraCache'[BuildJiraHashKey(Workspace, q)].present
      ]_vars

(***************************************************************************)
(* SpecRace: two routeEvent invocations for the same issue in flight at    *)
(* once, through their two getJiraDetails calls (part_002:65 and 180/193). *)
(***************************************************************************)
RaceRoutes == {"r1", "r2"}
RaceIssue == CHOOSE i \in Issues : TRUE
RaceWebhookEvents ==
    {"jira:issue_updated", "comment_created", "jira:issue_deleted"}
\* What upstream may answer for the transitions of the issue.
RaceTransBodies == {"some", "more"}

StartRace(webhookEvent) ==
    [pc |-> "start", webhookEvent |-> webhookEvent, detail |-> Undefined,
     transitions |-> Undefined, gotDetail |-> Undefined,
     gotTrans |-> Undefined, wrote |-> {}]

\* Route r performs the cache set of a successful getJiraDetails: last
\* notes, per url, the route whose set came last (history).
NoteSet(rc, r, url) ==
    [rc EXCEPT !.last[url] = r,
               !.routes[r].wrote = rc.routes[r].wrote \cup {url}]

\* Line 65, up to the first await of getJiraDetails.
RaceDetailCall(r) ==
    /\ race.routes[r].pc = "start"
    /\ LET url == DetailUrl(RaceIssue.id) IN
       race' = IF CacheHit(useCacheCfg, TRUE, jiraCache, url, now)
               THEN [race EXCEPT !.routes[r].pc = "describe",
                                 !.routes[r].detail =
                                     CacheGet(jiraCache, url, now)]
               ELSE [race EXCEPT !.routes[r].pc = "detail_wait"]
    /\ UNCHANGED <<fetchVars, prefVars, routeVars, cmdVars, approval,
                   storeBefore, descCall>>

RaceDetailOk(r, body) ==
    /\ race.routes[r].pc = "detail_wait"
    /\ RouteStore(DetailUrl(RaceIssue.id), body, DetailTtl)
    /\ race' = [NoteSet(race, r, DetailUrl(RaceIssue.id)) EXCEPT
                   !.routes[r].pc = "describe",
                   !.routes[r].detail = body,
                   !.routes[r].gotDetail = body]
    /\ UNCHANGED <<now, useCacheCfg, call, prefVars, routeVars, cmdVars,
                   approval, storeBefore, descCall>>

RaceDetailFail(r) ==
    /\ race.routes[r].pc = "detail_wait"
    /\ race' = [race EXCEPT !.routes[r].pc = "failed"]
    /\ UNCHANGED <<fetchVars, prefVars, routeVars, cmdVars, approval,
                   storeBefore, descCall>>

\* Line 68: getJiraIssueDescription up to its first await; the rest of the
\* route makes no getJiraDetails call.
RaceDescribe(r) ==
    /\ race.routes[r].pc = "describe"
    /\ LET url == TransUrl(RaceIssue.id)
           fetches == race.routes[r].webhookEvent \in
                         {"comment_created", "jira:issue_updated",
                          "jira:issue_created"}
       IN race' =
             IF ~fetches THEN [race EXCEPT !.routes[r].pc = "fetched"]
             ELSE IF CacheHit(useCacheCfg, TRUE, jiraCache, url, now)
             THEN [race EXCEPT !.routes[r].pc = "fetched",
                               !.routes[r].transitions =
                                   CacheGet(jiraCache, url, now)]
             ELSE [race EXCEPT !.routes[r].pc = "trans_wait"]
    /\ UNCHANGED <<fetchVars, prefVars, routeVars, cmdVars, approval,
                   storeBefore, descCall>>

RaceTransOk(r, body) ==
    /\ race.routes[r].pc = "trans_wait"
    /\ RouteStore(TransUrl(RaceIssue.id), body, TransTtl)
    /\ race' = [NoteSet(race, r, TransUrl(RaceIssue.id)) EXCEPT
                   !.routes[r].pc = "fetched",
                   !.routes[r].transitions = body,
                   !.routes[r].gotTrans = body]
    /\ UNCHANGED <<now, useCacheCfg, call, prefVars, routeVars, cmdVars,
                   approval, storeBefore, descCall>>

RaceTransFail(r) ==
    /\ race.routes[r].pc = "trans_wait"
    /\ race' = [race EXCEPT !.routes[r].pc = "failed"]
    /\ UNCHANGED <<fetchVars, prefVars, routeVars, cmdVars, approval,
                   storeBefore, descCall>>

InitRace ==
    /\ now = 0
    /\ useCacheCfg \in BOOLEAN
    /\ jiraCache = [u \in RouteUrls |-> NoEntry]
    /\ lastSet = [u \in RouteUrls |-> NoSet]
    /\ call = [p \in Callers |-> IdleCall]
    /\ PrefsIdle
    /\ RouteIdle
    /\ CmdIdle
    /\ approval = <<>>
    /\ \E w \in [RaceRoutes -> RaceWebhookEvents] :
          race = [routes |-> [r \in RaceRoutes |-> StartRace(w[r])],
                  last |-> [u \in RouteUrls |-> "none"]]
    /\ storeBefore = <<>>
    /\ descCall = <<>>

NextRace ==
    \/ \E r \in RaceRoutes : RaceDetailCall(r)
    \/ \E r \in RaceRoutes, b \in Bodies : RaceDetailOk(r, b)
    \/ \E r \in RaceRoutes : RaceDetailFail(r)
    \/ \E r \in RaceRoutes : RaceDescribe(r)
    \/ \E r \in RaceRoutes, b \in RaceTransBodies : RaceTransOk(r, b)
    \/ \E r \in RaceRoutes : RaceTransFail(r)

SpecRace == InitRace /\ [][NextRace]_vars

\* What upstream returned to route r for url.
GotFor(r, url) ==
    IF url = DetailUrl(RaceIssue.id) THEN race.routes[r].gotDetail
    ELSE race.routes[r].gotTrans

\* Last write wins on every key, and each route returns what it was given.
LastWriteWins ==
    /\ \A u \in RouteUrls :
          race.last[u] # "none" =>
              /\ jiraCache[u].present
              /\ jiraCache[u].value = GotFor(race.last[u], u)
    /\ \A r \in RaceRoutes :
          /\ race.routes[r].gotDetail # Undefined =>
                race.routes[r].detail = race.routes[r].gotDetail
          /\ race.routes[r].gotTrans # Undefined =>
                race.routes[r].transitions = race.routes[r].gotTrans

WrittenInCommon ==
    {u \in RouteUrls : \A r \in RaceRoutes : u \in race.routes[r].wrote}

\* C23 as stated: last write wins on the issue-detail entry, each route
\* returns a body upstream returned to it, and the detail url is the only
\* cache key both routes write.
C23_OnlyDetailInCommon ==
    /\ LastWriteWins
    /\ WrittenInCommon \subseteq {DetailUrl(RaceIssue.id)}

\* C23 as amended: the same, except that the routes may also both write
\* the transitions url of the issue, and no other key; last write wins
\* there as well.
C23_DetailAndTransitionsInCommon ==
    /\ LastWriteWins
    /\ WrittenInCommon \subseteq
          {DetailUrl(RaceIssue.id), TransUrl(RaceIssue.id)}
    /\ \A r \in RaceRoutes :
          TransUrl(RaceIssue.id) \in race.routes[r].wrote =>
              race.routes[r].webhookEvent # "jira:issue_deleted"

\* Both routes fetched the detail concurrently and got different bodies;
\* the cache holds the body of the route that set last, here the one whose
\* request was answered second.
C23_Witness ==
    /\ \A r \in RaceRoutes : race.routes[r].pc = "fetched"
    /\ race.routes["r1"].gotDetail = "b1"
    /\ race.routes["r2"].gotDetail = "b2"
    /\ race.last[DetailUrl(RaceIssue.id)] = "r1"
    /\ jiraCache[DetailUrl(RaceIssue.id)].value = "b1"
    /\ WrittenInCommon =
          {DetailUrl(RaceIssue.id), TransUrl(RaceIssue.id)}

(***************************************************************************)
(* The order of the steps of setJiraChannelPrefs.                          *)
(***************************************************************************)
\* C24: in setJiraChannelPrefs the put comes first and does not touch the
\* cache; the purge of the channel's preference key follows it and leaves
\* no entry under that key; the success message is sent only from there,
\* so only after both completed; and a put that fails changes neither the
\* store nor the cache.
C24_PutPurgeThenMessage ==
    [][LET key == PrefKey(Workspace, writer'.channel) IN
       /\ (writer'.pc = "purging" /\ writer.pc # "purging") =>
             /\ prefStore'[writer'.channel] = writer'.payload
             /\ jiraCache' = jiraCache
       /\ (writer'.pc = "replying" /\ writer.pc # "replying") =>
             /\ writer.pc = "purging"
             /\ prefStore[writer.channel] = writer.payload
             /\ ~jiraCache'[key].present
       /\ (writer'.pc = "done" /\ writer.pc # "done") =>
             writer.pc = "replying"
       /\ (writer'.pc = "failed" /\ writer.pc # "purging"
              /\ writer' # writer) =>
             (jiraCache' = jiraCache /\ prefStore' = prefStore)
      ]_vars

\* The command went through put, purge and message while the cache held a
\* record for the channel that a read had cached meanwhile.
C24_Witness ==
    /\ writer.pc = "done"
    /\ lastDone[writer.channel] = writer.payload
    /\ prefStore[writer.channel] = writer.payload
    /\ reader.pc = "done" /\ reader.channel = writer.channel
    /\ reader.result = PrefRecords[1]
    /\ ~jiraCache[PrefKey(Workspace, writer.channel)].present

(***************************************************************************)
(* Order of the steps of submitMappingPayload.                             *)
(***************************************************************************)
OwnKey(payload) == BuildJiraHashKey(Workspace, payload)
ChannelOnlyKey(payload) == BuildJiraHashKey(Workspace, ChannelOnly(payload))

\* C25: submitMappingPayload resolves only after the store mutation, the
\* purge of the payload's own key and the purge of the channel-only key,
\* in that order; a failed step rejects and no later step is performed;
\* and on resolution the cache holds no entry under either key.
C25_ResolvedMeansBothKeysEmpty ==
    [][/\ (submit'.pc = "purge_channel" /\ submit.pc # "purge_channel") =>
              /\ submit.pc = "purge_own"
              /\ mappingStore' = mappingStore
              /\ ~jiraCache'[OwnKey(submit.payload)].present
       /\ (submit'.pc = "resolved" /\ submit.pc # "resolved") =>
              /\ submit.pc = "purge_channel"
              /\ mappingStore' = mappingStore
              /\ ~jiraCache'[ChannelOnlyKey(submit.payload)].present
              /\ ~jiraCache'[OwnKey(submit.payload)].present
       /\ (submit'.pc = "rejected" /\ submit' # submit) =>
              (mappingStore' = mappingStore /\ jiraCache' = jiraCache)
      ]_vars

(***************************************************************************)
(* SpecHandler: the OnJiraIssueEvent handler, which awaits                 *)
(* routeEvent(ctx, e.data.JiraIssue[0]) and returns Success.               *)
(***************************************************************************)
JsBool(b) == <<"boolean", b>>
\* The truthiness JavaScript gives a value in `newEvent ? ... : ...`.
ToBoolean(v) ==
    CASE v[1] = "undefined" -> FALSE
      [] v[1] = "boolean" -> v[2]
      [] v[1] = "string" -> v[2] # ""

\* The handler's call names two arguments: the third parameter of
\* routeEvent, newEvent, is undefined inside the call.
HandlerNewEventArgument == JsUndefined

\* The subscription delivered an event and the handler has not run yet.
ReceivedRoute == [StartRoute EXCEPT !.pc = "received"]

\* part_001:12, up to the call of routeEvent.
OnJiraIssueEventHandlerCall ==
    /\ route.pc = "received"
    /\ route' = StartRoute
    /\ newEvent' = ToBoolean(HandlerNewEventArgument)
    /\ UNCHANGED <<restVars, fetchVars, prefVars, event, resolved,
                   storedPrefs>>

\* part_001:12-13: the awaited routeEvent settled; the handler returns
\* Success when it resolved and rejects when it rejected.
OnJiraIssueEventHandlerReturn ==
    /\ route.pc = "done"
    /\ route' = [route EXCEPT
                    !.pc = IF route.outcome \in {"sent", "dropped"}
                           THEN "success" ELSE "rejected"]
    /\ UNCHANGED <<restVars, fetchVars, prefVars, event, newEvent, resolved,
                   storedPrefs>>

InitHandler ==
    /\ now = 0
    /\ useCacheCfg \in BOOLEAN
    /\ jiraCache = [u \in RouteUrls |-> NoEntry]
    /\ lastSet = [u \in RouteUrls |-> NoSet]
    /\ call = [p \in Callers |-> IdleCall]
    /\ PrefsIdle
    /\ HandlersIdle
    /\ event \in [webhookEvent : WebhookEvents, typeName : EventTypeNames,
                  hasComment : BOOLEAN, hasChangelog : BOOLEAN,
                  issueType : IssueTypes, issue : Issues,
                  timestamp : Timestamps]
    /\ newEvent = FALSE
    /\ resolved \in SeqsUpTo(Channels, MaxCandidates)
    /\ resolved # <<>> => resolved[1] = "c1"
    /\ storedPrefs \in [Channels -> PrefSamples]
    /\ \A c \in Channels : ~InSeq(c, resolved) => storedPrefs[c] = "none"
    /\ route = ReceivedRoute
    /\ CmdIdle

NextHandler ==
    \/ OnJiraIssueEventHandlerCall
    \/ RouteDetailCall
    \/ RouteDetailOk
    \/ RouteDetailFail
    \/ RouteDescribe
    \/ \E b \in TransBodies : RouteTransOk(b)
    \/ RouteTransFail
    \/ RouteResolve
    \/ RouteResolveFail
    \/ RouteCompose
    \/ OnJiraIssueEventHandlerReturn

SpecHandler == InitHandler /\ [][NextHandler]_vars

\* C26: an event received by the handler is routed exactly once, as a new
\* event: every notification it produces carries post mode "always".
C26_HandlerRoutesAsNew ==
    /\ route.pass = 1
    /\ Len(route.sent) <= 1
    /\ \A i \in 1..Len(route.sent) : route.sent[i].options.post = "always"

(***************************************************************************)
(* Frame of submitMappingPayload with active = false.                      *)
(***************************************************************************)
ComponentLevel(payload) ==
    HasField(payload, "componentId") /\
    Field(payload, "componentId") # JsUndefined
\* The project-level payload {projectId, channel} of a payload.
ProjectLevel(payload) ==
    <<<<"projectId", Field(payload, "projectId")>>,
      <<"channel", Field(payload, "channel")>>>>

\* C28: the delete of a component-level payload removes only the record
\* under that payload's key; the project-level record of its project and
\* channel and every other record of the store stay as they were.
C28_DeleteRemovesOnlyOwnRecord ==
    [][(submit'.pc = "purge_own" /\ submit.pc # "purge_own"
           /\ ~submit'.active /\ ComponentLevel(submit'.payload)) =>
          LET q == submit'.payload
              k == OwnKey(q)
          IN /\ mappingStore'[k] = NoRecord
             /\ mappingStore'[OwnKey(ProjectLevel(q))] =
                   mappingStore[OwnKey(ProjectLevel(q))]
             /\ \A o \in DOMAIN mappingStore :
                   o # k => mappingStore'[o] = mappingStore[o]
      ]_vars

\* A component-level record was deleted while the project-level record of
\* the same project and channel was in the store, and that one is still
\* there.
C28_Witness ==
    /\ submit.pc = "resolved" /\ ~submit.active /\ submit.hadRecord
    /\ submit.payload = MappingPayload("A", "c1", "X")
    /\ mappingStore[OwnKey(submit.payload)] = NoRecord
    /\ mappingStore[OwnKey(ProjectLevel(submit.payload))] =
          StoredMapping(MappingPayload("A", "c1", "absent"))
    /\ mappingStore[OwnKey(MappingPayload("B", "c1", "absent"))].present

(***************************************************************************)
(* SpecPutDelete: submitMappingPayload(ci, payload, true) and then         *)
(* submitMappingPayload(ci, payload, false) with the identical payload, in *)
(* one of two workspaces, over a JIRAMappings scope holding any records.   *)
(***************************************************************************)
PairWorkspaces == {Workspace, "ws2"}
PairKeys ==
    {BuildJiraHashKey(w, q) : w \in PairWorkspaces, q \in MappingPayloads}
PairCacheKeys ==
    PairKeys \cup {BuildJiraHashKey(w, ChannelOnly(q)) :
                      w \in PairWorkspaces, q \in MappingPayloads}
\* The scope holds, under each key, the payload of that key or nothing.
PairStores ==
    {[k \in PairKeys |->
         IF k \in held
         THEN StoredMapping(CHOOSE q \in MappingPayloads :
                               \E w \in PairWorkspaces :
                                   BuildJiraHashKey(w, q) = k)
         ELSE NoRecord] : held \in SUBSET PairKeys}

PairFirstCall(workspaceId, payload) ==
    /\ submit.pc = "idle"
    /\ SubmitStoreIn(workspaceId, payload, TRUE)

PairFirstCallFail(workspaceId, payload) ==
    /\ submit.pc = "idle"
    /\ SubmitStoreFailIn(workspaceId, payload, TRUE)

PairSecondCall ==
    /\ submit.pc = "resolved" /\ submit.active
    /\ SubmitStoreIn(submit.workspace, submit.payload, FALSE)

PairSecondCallFail ==
    /\ submit.pc = "resolved" /\ submit.active
    /\ SubmitStoreFailIn(submit.workspace, submit.payload, FALSE)

InitPutDelete ==
    /\ now = 0
    /\ useCacheCfg = TRUE
    /\ jiraCache = [k \in PairCacheKeys |-> NoEntry]
    /\ lastSet = [k \in PairCacheKeys |-> NoSet]
    /\ call = [p \in Callers |-> IdleCall]
    /\ PrefsIdle
    /\ RouteIdle
    /\ approval = <<>>
    /\ race = <<>>
    /\ prefQuery = <<>>
    /\ hashCall = <<>>
    /\ mappingStore \in PairStores
    /\ storeBefore = mappingStore
    /\ descCall = <<>>
    /\ submit = IdleSubmit

NextPutDelete ==
    \/ \E w \in PairWorkspaces, q \in MappingPayloads : PairFirstCall(w, q)
    \/ \E w \in PairWorkspaces, q \in MappingPayloads :
          PairFirstCallFail(w, q)
    \/ SubmitPurgeOwn
    \/ SubmitPurgeChannel
    \/ SubmitPurgeFail
    \/ PairSecondCall
    \/ PairSecondCallFail

SpecPutDelete == InitPutDelete /\ [][NextPutDelete]_vars

\* The second call's delete has been performed at the store.
DeletePerformed ==
    ~submit.active /\ submit.pc \in {"purge_own", "purge_channel", "resolved"}
PairKey == BuildJiraHashKey(submit.workspace, submit.payload)

\* C29: a put followed by a delete of the identical payload returns the
\* JIRAMappings scope to the state it had before the put, provided no
\* record existed under the payload's key; in any case the two calls
\* change nothing but the record under that one key.
C29_PutThenDeleteRestoresStore ==
    DeletePerformed =>
        /\ mappingStore[PairKey] = NoRecord
        /\ \A k \in PairKeys \ {PairKey} : mappingStore[k] = storeBefore[k]
        /\ storeBefore[PairKey] = NoRecord => mappingStore = storeBefore

\* The pair ran to the end in the second workspace on a payload that had
\* no record, while the first workspace held the record of the same
\* payload; the scope is as it was before.
C29_Witness ==
    /\ DeletePerformed /\ submit.pc = "resolved"
    /\ submit.workspace = "ws2"
    /\ submit.payload = MappingPayload("A", "c1", "X")
    /\ storeBefore[PairKey] = NoRecord
    /\ storeBefore[BuildJiraHashKey(Workspace, submit.payload)].present
    /\ mappingStore = storeBefore

(***************************************************************************)
(* What decides whether getJiraDetails writes the cache.                   *)
(***************************************************************************)
\* C30: the cache is written by getJiraDetails exactly when its cache
\* argument is true and the upstream fetch succeeded, whatever the value
\* of sdm.jira.useCache: such a step sets the entry for the url, and every
\* step of a call with cache = false leaves the cache as it was.
C30_WriteDependsOnCacheArgOnly ==
    [][\A p \in DOMAIN call :
          LET c == call[p] d == call'[p]
              succeeded == c.pc = "waiting" /\ d.resp = "ok"
          IN d # c =>
                /\ (succeeded /\ c.cache) =>
                      /\ jiraCache'[c.url].present
                      /\ jiraCache'[c.url].value = d.result
                      /\ \A u \in DOMAIN jiraCache \ {c.url} :
                            jiraCache'[u] = jiraCache[u]
                /\ ~(succeeded /\ c.cache) => jiraCache' = jiraCache
                /\ ~d.cache => jiraCache' = jiraCache
      ]_vars

\* With sdm.jira.useCache false, a call with cache = true fetched and left
\* its body in the cache, where no entry was before.
C30_Witness ==
    \E p \in DOMAIN call :
        LET c == call[p] IN
        /\ ~useCacheCfg
        /\ c.pc = "returned" /\ c.resp = "ok" /\ c.cache
        /\ c.seen = Undefined
        /\ jiraCache[c.url].present
        /\ jiraCache[c.url].value = c.result
        /\ lastSet[c.url].until = now + c.ttl

(***************************************************************************)
(* SpecMsgId: getJiraIssueDescription called for two events, each with its *)
(* own newEvent flag; the fetch of the transitions may fail.               *)
(***************************************************************************)
DescIssues == {[id |-> "10001", key |-> "PROJ-1"],
               [id |-> "10002", key |-> "PROJ-2"]}
DescTimestamps == {"t1", "t2"}
DescEvents ==
    [webhookEvent : WebhookEvents, typeName : EventTypeNames,
     hasComment : BOOLEAN, hasChangelog : {TRUE}, issueType : {"bug"},
     issue : DescIssues, timestamp : DescTimestamps]
DescCalls == {1, 2}

\* The call for event i returned {description, issueTransitions,
\* msgOptions}; categories is what routeEvent classifies the event as.
GetJiraIssueDescriptionOk(i) ==
    /\ descCall[i].pc = "called"
    /\ descCall' = [descCall EXCEPT
                       ![i].pc = "returned",
                       ![i].msgOptions = MsgOptions(descCall[i].event,
                                                    descCall[i].newEvent),
                       ![i].categories = RouteCategories(descCall[i].event)]
    /\ UNCHANGED <<fetchVars, prefVars, routeVars, cmdVars, approval, race,
                   storeBefore>>

\* The awaited getJiraDetails for the transitions threw: no msgOptions.
GetJiraIssueDescriptionFail(i) ==
    /\ descCall[i].pc = "called"
    /\ FetchesTransitions(descCall[i].event)
    /\ descCall' = [descCall EXCEPT ![i].pc = "thrown"]
    /\ UNCHANGED <<fetchVars, prefVars, routeVars, cmdVars, approval, race,
                   storeBefore>>

StartDesc(e, isNew) ==
    [pc |-> "called", event |-> e, newEvent |-> isNew,
     msgOptions |-> NoMsgOptions, categories |-> <<>>]

InitMsgId ==
    /\ FetchIdle
    /\ PrefsIdle
    /\ RouteIdle
    /\ CmdIdle
    /\ approval = <<>>
    /\ race = <<>>
    /\ storeBefore = <<>>
    /\ \E e1 \in DescEvents, e2 \in DescEvents, n1 \in BOOLEAN,
          n2 \in BOOLEAN :
          \* Keys and timestamps are interchangeable: the first event has
          \* the first of each.
          /\ e1.issue.key = "PROJ-1" /\ e1.timestamp = "t1"
          /\ descCall = [i \in DescCalls |->
                            IF i = 1 THEN StartDesc(e1, n1)
                            ELSE StartDesc(e2, n2)]

NextMsgId ==
    \/ \E i \in DescCalls : GetJiraIssueDescriptionOk(i)
    \/ \E i \in DescCalls : GetJiraIssueDescriptionFail(i)

SpecMsgId == InitMsgId /\ [][NextMsgId]_vars

UpdatedKind(e) == e.webhookEvent \in {"comment_created", "jira:issue_updated"}
SameKeyAndTimestamp(e, f) ==
    e.issue.key = f.issue.key /\ e.timestamp = f.timestamp

\* C31: the message identity is a function of webhookEvent, issue key and
\* timestamp only; comment_created and jira:issue_updated events with the
\* same key and timestamp get the same identity
\* jira/issue_updated/<key>/<timestamp> whatever they are classified as;
\* created and deleted events get identities distinct from it and from
\* each other.
C31_IdentityByWebhookKeyTimestamp ==
    (\A i \in DescCalls : descCall[i].pc = "returned") =>
        LET a == descCall[1].event
            b == descCall[2].event
            ia == descCall[1].msgOptions.id
            ib == descCall[2].msgOptions.id
        IN /\ (a.webhookEvent = b.webhookEvent /\ SameKeyAndTimestamp(a, b))
                  => ia = ib
           /\ UpdatedKind(a) =>
                  ia = <<"jira", "issue_updated", a.issue.key, a.timestamp>>
           /\ (UpdatedKind(a) /\ UpdatedKind(b) /\ SameKeyAndTimestamp(a, b))
                  => ia = ib
           /\ (UpdatedKind(a) /\ SameKeyAndTimestamp(a, b)
                 /\ b.webhookEvent \in
                       {"jira:issue_created", "jira:issue_deleted"})
                  => (ia # ib /\ ib # <<>>)
           /\ (a.webhookEvent = "jira:issue_created"
                 /\ b.webhookEvent = "jira:issue_deleted"
                 /\ SameKeyAndTimestamp(a, b))
                  => (ia # ib /\ ia # <<>> /\ ib # <<>>)

\* A comment_created event classified issueComment and a jira:issue_updated
\* event classified issueStatus, one of them new and the other not, with the
\* same key and timestamp, got the same identity.
C31_Witness ==
    /\ \A i \in DescCalls : descCall[i].pc = "returned"
    /\ descCall[1].event.webhookEvent = "comment_created"
    /\ descCall[1].categories = <<"issueComment">>
    /\ descCall[2].event.webhookEvent = "jira:issue_updated"
    /\ descCall[2].categories = <<"issueStatus">>
    /\ SameKeyAndTimestamp(descCall[1].event, descCall[2].event)
    /\ descCall[1].newEvent # descCall[2].newEvent
    /\ descCall[1].msgOptions.id = descCall[2].msgOptions.id
    /\ descCall[1].msgOptions.id = <<"jira", "issue_updated", "PROJ-1", "t1">>

(***************************************************************************)
(* The addressed channels against the candidates.                          *)
(***************************************************************************)
\* C32: every channel a notification of routeEvent is addressed to is one
\* of the candidates jiraDetermineNotifyChannels returned for the event;
\* and a route whose composed message or whose filtered channel list is
\* empty sends nothing.
C32_AddressedAreCandidates ==
    /\ \A n \in 1..Len(route.sent) :
          \A i \in 1..Len(route.sent[n].channels) :
              /\ ChannelIn(route.sent[n].channels[i], route.newChannels)
              /\ InSeq(route.sent[n].channels[i], resolved)
    /\ (route.pc = "done"
          /\ (~MessageNonEmpty(event) \/ route.channels = <<>>)) =>
             route.sent = <<>>

\* A notification went to one of two candidates, the other having been
\* filtered out by its preferences.
C32_Witness ==
    /\ route.pc = "done" /\ route.outcome = "sent"
    /\ Len(route.newChannels) = 2
    /\ route.newChannels[1].channel # route.newChannels[2].channel
    /\ Len(route.sent) = 1
    /\ Len(route.sent[1].channels) = 1
    /\ ChannelIn(route.sent[1].channels[1], route.newChannels)
====
